---- MODULE Spec2Model ----
(***************************************************************************)
(* GrandaIncontri: the Flask application (src/app.py) over its two         *)
(* persistence modules, profiles_dao (PostgreSQL) and profiles_dao1        *)
(* (SQLite).  Python values are tagged records, strings are sequences of   *)
(* one-character strings, tables are sets of rows.                         *)
(***************************************************************************)
EXTENDS Integers, Sequences, FiniteSets, TLC

VARIABLES
    profiles,         \* table profiles: a set of rows (records keyed by column)
    messages,         \* table messages: a set of rows
    next_profile_id,  \* the id the next INSERT INTO profiles receives
    next_message_id,  \* the id the next INSERT INTO messages receives
    dao,              \* the persistence module in use: "profiles_dao" | "profiles_dao1"
    session,          \* Flask session of each client: [is_authenticated, form_errors]
    login_by,         \* per client: the raw txt_password that set is_authenticated
    now,              \* the wall clock: [year, sec]
    ret,              \* what the last call or request did and returned
    procs             \* per client: where its request in flight stands

vars == <<profiles, messages, next_profile_id, next_message_id, dao, session,
          login_by, now, ret, procs>>

-----------------------------------------------------------------------------
(* Python values *)

None == [t |-> "None"]
PyStr(s) == [t |-> "str", v |-> s]
PyInt(n) == [t |-> "int", v |-> n]
PyBool(b) == [t |-> "bool", v |-> b]
\* a float that is not an integer value, carried by its str() form
PyFloat(repr) == [t |-> "float", v |-> repr]

\* bool(v)
Truthy(v) ==
    CASE v.t = "None" -> FALSE
      [] v.t = "str" -> Len(v.v) > 0
      [] v.t = "int" -> v.v # 0
      [] v.t = "bool" -> v.v
      [] OTHER -> TRUE

\* v or d
OrElse(v, d) == IF Truthy(v) THEN v ELSE d

-----------------------------------------------------------------------------
(* Python str methods *)

UpperChars == <<"A","B","C","D","E","F","G","H","I","J","K","L","M",
                "N","O","P","Q","R","S","T","U","V","W","X","Y","Z">>
LowerChars == <<"a","b","c","d","e","f","g","h","i","j","k","l","m",
                "n","o","p","q","r","s","t","u","v","w","x","y","z">>
DigitChars == <<"0","1","2","3","4","5","6","7","8","9">>

IndexIn(c, cs) == CHOOSE i \in 1..Len(cs) : cs[i] = c
IsIn(c, cs) == \E i \in 1..Len(cs) : cs[i] = c

LowerChar(c) == IF IsIn(c, UpperChars) THEN LowerChars[IndexIn(c, UpperChars)] ELSE c
UpperChar(c) == IF IsIn(c, LowerChars) THEN UpperChars[IndexIn(c, LowerChars)] ELSE c

\* s.lower(), s.upper()
Lower(s) == [i \in 1..Len(s) |-> LowerChar(s[i])]
Upper(s) == [i \in 1..Len(s) |-> UpperChar(s[i])]

RECURSIVE LStrip(_)
LStrip(s) == IF s # <<>> /\ Head(s) = " " THEN LStrip(Tail(s)) ELSE s

RECURSIVE RStrip(_)
RStrip(s) ==
    IF s # <<>> /\ s[Len(s)] = " " THEN RStrip(SubSeq(s, 1, Len(s) - 1)) ELSE s

\* s.strip()
Strip(s) == RStrip(LStrip(s))

\* needle in hay
Contains(needle, hay) ==
    \E i \in 0..(Len(hay) - Len(needle)) : SubSeq(hay, i + 1, i + Len(needle)) = needle

\* s.isdigit()
IsDigitStr(s) == s # <<>> /\ \A i \in 1..Len(s) : IsIn(s[i], DigitChars)

DigitVal(c) == IndexIn(c, DigitChars) - 1

RECURSIVE DigitsToNat(_)
DigitsToNat(s) ==
    IF s = <<>> THEN 0
    ELSE 10 * DigitsToNat(SubSeq(s, 1, Len(s) - 1)) + DigitVal(s[Len(s)])

\* s.replace(a, b) for one-character a, b
ReplaceChar(s, a, b) == [i \in 1..Len(s) |-> IF s[i] = a THEN b ELSE s[i]]

\* int(s) of a str: surrounding blanks and one sign are accepted; the result
\* is None here where Python raises ValueError
ParseInt(s) ==
    LET body == Strip(s)
        signed == body # <<>> /\ Head(body) \in {"+", "-"}
        digits == IF signed THEN Tail(body) ELSE body
    IN  IF ~IsDigitStr(digits) THEN None
        ELSE IF signed /\ Head(body) = "-" THEN PyInt(0 - DigitsToNat(digits))
        ELSE PyInt(DigitsToNat(digits))

\* characters in code-point order, for the comparison of text values
Alphabet == <<" ", "+", ",", "-", ".">> \o DigitChars \o <<":", "@">>
             \o UpperChars \o LowerChars
CharCode(c) == IndexIn(c, Alphabet)

\* a < b on str (code-point lexicographic order)
RECURSIVE StrLess(_, _)
StrLess(a, b) ==
    IF b = <<>> THEN FALSE
    ELSE IF a = <<>> THEN TRUE
    ELSE IF Head(a) = Head(b) THEN StrLess(Tail(a), Tail(b))
    ELSE CharCode(Head(a)) < CharCode(Head(b))

-----------------------------------------------------------------------------
(* Clock and timestamps *)

RECURSIVE NatToDigits(_, _)
\* the decimal digits of n, zero-padded to width w
NatToDigits(n, w) ==
    IF w = 0 THEN <<>> ELSE NatToDigits(n \div 10, w - 1) \o <<DigitChars[(n % 10) + 1]>>

\* strftime("%Y-%m-%d %H:%M:%S") of a clock value; the model's clock runs
\* through the first seconds of its year
strftime(clock) ==
    NatToDigits(clock.year, 4)
      \o <<"-","0","1","-","0","1"," ","0","0",":","0","0",":">>
      \o NatToDigits(clock.sec, 2)

_utc_now_str(clock) == strftime(clock)

-----------------------------------------------------------------------------
(* profiles_dao / profiles_dao1: rows and queries *)

ProfileColumns ==
    {"id", "first_name", "last_name", "gender", "birth_year", "city", "occupation",
     "eyes_color", "hair_color", "height_cm", "smoker", "bio", "is_active",
     "created_at", "weight_kg", "marital_status", "zodiac_sign"}

\* the columns insert_profile and update_profile both write
ProfileParams == ProfileColumns \ {"id", "created_at"}

MessageColumns ==
    {"id", "sender_name", "sender_phone", "sender_email", "sender_job", "sender_age",
     "sender_city", "sender_message", "profile_id", "created_at"}

\* created_at IS NULL OR created_at = ''
CreatedMissing(r) == r.created_at = None \/ r.created_at = PyStr(<<>>)

\* CASE WHEN (created_at IS NULL OR created_at = '') THEN 1 ELSE 0 END
CaseKey(r) == IF CreatedMissing(r) THEN 1 ELSE 0

\* ORDER BY of profiles_dao.get_all_profiles: does row a come before row b
OrderBefore(a, b) ==
    \/ CaseKey(a) < CaseKey(b)
    \/ /\ CaseKey(a) = CaseKey(b)
       \* created_at DESC NULLS LAST
       /\ \/ a.created_at # None /\ b.created_at = None
          \/ /\ a.created_at # None /\ b.created_at # None
             /\ StrLess(b.created_at.v, a.created_at.v)
    \/ /\ CaseKey(a) = CaseKey(b)
       /\ a.created_at = b.created_at
       \* id DESC
       /\ a.id.v > b.id.v

\* SQLite's order of two values of a TEXT column: NULL is less than any text
SqliteLess(x, y) ==
    \/ x = None /\ y # None
    \/ x # None /\ y # None /\ StrLess(x.v, y.v)

\* ORDER BY of profiles_dao1.get_all_profiles
OrderBefore1(a, b) ==
    \/ CaseKey(a) < CaseKey(b)
    \/ /\ CaseKey(a) = CaseKey(b)
       \* created_at DESC
       /\ SqliteLess(b.created_at, a.created_at)
    \/ /\ CaseKey(a) = CaseKey(b)
       /\ a.created_at = b.created_at
       /\ a.id.v > b.id.v

RECURSIVE Ordered(_, _)
\* the rows of S as the list the ORDER BY yields (ids are unique: the order is total)
Ordered(S, variant) ==
    IF S = {} THEN <<>>
    ELSE LET first == CHOOSE r \in S : \A q \in S \ {r} :
                          IF variant = "profiles_dao" THEN OrderBefore(r, q)
                          ELSE OrderBefore1(r, q)
         IN  <<first>> \o Ordered(S \ {first}, variant)

\* profiles_dao.get_all_profiles
get_all_profiles(profs) == Ordered(profs, "profiles_dao")

\* profiles_dao1.get_all_profiles
get_all_profiles1(profs) == Ordered(profs, "profiles_dao1")

\* SELECT * FROM profiles WHERE id = %s; fetchone()
get_profile_by_id(profs, profile_id) ==
    IF \E r \in profs : r.id = PyInt(profile_id)
    THEN CHOOSE r \in profs : r.id = PyInt(profile_id)
    ELSE None

\* INSERT INTO profiles ... RETURNING id: the table after the insert
insert_profile(profs, new_id, params, created_at, clock) ==
    LET stamp == IF Truthy(created_at) THEN created_at ELSE PyStr(_utc_now_str(clock))
        row == [c \in ProfileColumns |->
                  IF c = "id" THEN PyInt(new_id)
                  ELSE IF c = "created_at" THEN stamp
                  ELSE params[c]]
    IN  profs \cup {row}

\* an UPDATE that writes every column but id, created_at as NULL
update_profile_all_columns(profs, profile_id, params) ==
    {IF r.id = PyInt(profile_id)
       THEN [c \in DOMAIN r |-> IF c \in ProfileParams THEN params[c]
                                ELSE IF c = "created_at" THEN None ELSE r[c]]
       ELSE r : r \in profs}
\* an UPDATE whose SET list leaves is_active out
update_profile_keeping_active(profs, profile_id, params) ==
    {IF r.id = PyInt(profile_id)
       THEN [c \in DOMAIN r |-> IF c \in ProfileParams \ {"is_active"} THEN params[c] ELSE r[c]]
       ELSE r : r \in profs}
\* UPDATE profiles SET ... WHERE id = %s: the table after the update
update_profile(profs, profile_id, params) ==
    {IF r.id = PyInt(profile_id)
       THEN [c \in DOMAIN r |-> IF c \in ProfileParams THEN params[c] ELSE r[c]]
       ELSE r : r \in profs}

\* UPDATE messages SET profile_id = NULL WHERE profile_id = %s
DetachMessages(msgs, profile_id) ==
    {IF m.profile_id = PyInt(profile_id) THEN [m EXCEPT !.profile_id = None] ELSE m
       : m \in msgs}

\* DELETE FROM profiles WHERE id = %s
DeleteProfileRow(profs, profile_id) == {r \in profs : r.id # PyInt(profile_id)}

\* messages.profile_id REFERENCES profiles(id), with no ON DELETE action: the
\* storage layer rejects the removal of a profile row a message still names
FkBlocksDelete(msgs, profile_id) == \E m \in msgs : m.profile_id = PyInt(profile_id)

\* ... and rejects a message row naming a profile that is not stored
FkBlocksInsert(profs, profile_id) ==
    profile_id # None /\ ~\E r \in profs : r.id = profile_id

\* profiles_dao.delete_profile: detach, delete, commit
delete_profile(profs, msgs, profile_id) ==
    LET detached == DetachMessages(msgs, profile_id)
    IN  IF FkBlocksDelete(detached, profile_id)
        THEN [raised |-> TRUE, profiles |-> profs, messages |-> msgs]
        ELSE [raised |-> FALSE, profiles |-> DeleteProfileRow(profs, profile_id),
              messages |-> detached]

\* profiles_dao1.delete_profile: delete, commit; rollback and re-raise on error
delete_profile1(profs, msgs, profile_id) ==
    IF FkBlocksDelete(msgs, profile_id)
    THEN [raised |-> TRUE, profiles |-> profs, messages |-> msgs]
    ELSE [raised |-> FALSE, profiles |-> DeleteProfileRow(profs, profile_id),
          messages |-> msgs]

\* insert_message (both modules): the outcome of the INSERT INTO messages
insert_message(profs, msgs, new_id, params, clock) ==
    LET row == [c \in MessageColumns |->
                  IF c = "id" THEN PyInt(new_id)
                  ELSE IF c = "created_at" THEN PyStr(_utc_now_str(clock))
                  \* the INSERT names profile_id only when it is not None;
                  \* the column's default is NULL
                  ELSE IF c = "profile_id"
                    THEN (IF params.profile_id # None THEN params.profile_id ELSE None)
                  ELSE params[c]]
    IN  IF FkBlocksInsert(profs, params.profile_id)
        THEN [raised |-> TRUE, messages |-> msgs]
        ELSE [raised |-> FALSE, messages |-> msgs \cup {row}]

-----------------------------------------------------------------------------
(* app.py: form helpers *)

\* request.form.get(k): the submitted text, or None when the key is absent
FormGet(form, k) == IF k \in DOMAIN form THEN PyStr(form[k]) ELSE None

\* (form.get(k) or "").strip()
FormText(form, k) == Strip(OrElse(FormGet(form, k), PyStr(<<>>)).v)

\* int(v) if v not in (None, "", "None") else None; None on any exception
_to_int(v) ==
    IF v \in {None, PyStr(<<>>), PyStr(<<"N","o","n","e">>)} THEN None
    ELSE ParseInt(v.v)

\* 1 if v in ("on", "1", 1, True, "true") else 0
_cb_to_int(v) ==
    IF v \in {PyStr(<<"o","n">>), PyStr(<<"1">>), PyInt(1), PyBool(TRUE),
              PyStr(<<"t","r","u","e">>)}
    THEN 1 ELSE 0

\* a finite float, carried exactly in thousandths; nan and inf
Milli(n) == [t |-> "float", milli |-> n]
NonFinite == [t |-> "float", finite |-> FALSE]

sNan == <<"n","a","n">>
sInf == <<"i","n","f">>

\* float(s): decimal notation with an optional sign and surrounding blanks, nan
\* and inf; None here where Python raises ValueError.  The value is exact for
\* up to three fractional digits, which is all the model submits.
ParseFloat(s) ==
    LET body == Strip(s)
        signed == body # <<>> /\ Head(body) \in {"+", "-"}
        rest == IF signed THEN Tail(body) ELSE body
        dots == {i \in 1..Len(rest) : rest[i] = "."}
        dot == IF dots = {} THEN Len(rest) + 1 ELSE CHOOSE i \in dots : TRUE
        whole == SubSeq(rest, 1, dot - 1)
        frac == SubSeq(rest, dot + 1, Len(rest))
        frac3 == SubSeq(frac \o <<"0","0","0">>, 1, 3)
        digitsOnly(x) == \A i \in 1..Len(x) : IsIn(x[i], DigitChars)
        magnitude == 1000 * DigitsToNat(whole) + DigitsToNat(frac3)
    IN  IF Lower(rest) \in {sNan, sInf} THEN NonFinite
        ELSE IF Cardinality(dots) > 1 \/ ~digitsOnly(whole) \/ ~digitsOnly(frac)
                \/ Len(whole) + Len(frac) = 0 THEN None
        ELSE IF signed /\ Head(body) = "-" THEN Milli(0 - magnitude)
        ELSE Milli(magnitude)

\* _to_float of create_or_update_profile
_to_float(v) ==
    IF v = None \/ Strip(v.v) = <<>> THEN None
    ELSE ParseFloat(ReplaceChar(v.v, ",", "."))

\* int(round(height_m * 100)) of a finite height_m given in thousandths: to the
\* nearest integer.  An exact tie (a 5 in the third decimal) goes to the even
\* neighbour here; the float product decides it in Python, and the model
\* submits no such value.
RoundCm(milli) ==
    LET q == milli \div 10
        r == milli % 10
    IN  IF r < 5 THEN q
        ELSE IF r > 5 THEN q + 1
        ELSE IF q % 2 = 0 THEN q ELSE q + 1

-----------------------------------------------------------------------------
(* app.py: create_or_update_profile *)

FlashAuth == [msg |-> "Devi inserire il codice per accedere.", cat |-> "warning"]
FlashDeleted == [msg |-> "Profilo eliminato con successo!", cat |-> "success"]
FlashUpdated == [msg |-> "Profilo aggiornato con successo!", cat |-> "success"]
FlashCreated == [msg |-> "Profilo creato e pubblicato!", cat |-> "success"]
ErrFirstName == "Il nome e obbligatorio."
ErrGender == "Il genere e obbligatorio."
ErrBio == "La bio e obbligatoria."
ErrHeight == "L'altezza deve essere tra 1.00 m e 2.50 m."

sDelete == <<"d","e","l","e","t","e">>

\* 1.00 < height_m < 2.50
HeightInRangeStrict(height_m) == 1000 < height_m.milli /\ height_m.milli < 2500
\* 1.00 <= height_m <= 2.50
HeightInRange(height_m) == 1000 <= height_m.milli /\ height_m.milli <= 2500

\* === VALIDAZIONE ===: the list errors
ValidationErrors(first_name, gender, bio, height_m) ==
    (IF first_name = <<>> THEN <<ErrFirstName>> ELSE <<>>)
      \o (IF gender = <<>> THEN <<ErrGender>> ELSE <<>>)
      \o (IF bio = <<>> THEN <<ErrBio>> ELSE <<>>)
      \o (IF height_m # None /\ ~HeightInRange(height_m) THEN <<ErrHeight>> ELSE <<>>)

\* the keyword arguments of update_profile and insert_profile
ProfileArgs(form, height_cm) ==
    [first_name |-> PyStr(FormText(form, "first_name")),
     last_name |-> PyStr(FormText(form, "last_name")),
     gender |-> PyStr(Lower(FormText(form, "gender"))),
     birth_year |-> _to_int(FormGet(form, "birth_year")),
     city |-> PyStr(FormText(form, "city")),
     occupation |-> PyStr(FormText(form, "occupation")),
     eyes_color |-> PyStr(FormText(form, "eyes_color")),
     hair_color |-> PyStr(FormText(form, "hair_color")),
     height_cm |-> height_cm,
     smoker |-> PyInt(_cb_to_int(FormGet(form, "smoker"))),
     bio |-> PyStr(FormText(form, "bio")),
     is_active |-> PyInt(1),
     weight_kg |-> _to_int(FormGet(form, "weight_kg")),
     marital_status |-> PyStr(FormText(form, "marital_status")),
     zodiac_sign |-> PyStr(FormText(form, "zodiac_sign"))]

\* a response of the handler: status ("302" redirect, "500" unhandled
\* exception), the messages flashed, the redirect target, the persistence
\* calls made in order, the validation errors, and the tables afterwards
Response(status, flashes, redirect, calls, errors, profs, msgs) ==
    [status |-> status, flashes |-> flashes, redirect |-> redirect, calls |-> calls,
     errors |-> errors, profiles |-> profs, messages |-> msgs]

ToAnnunci(profile_id) == [to |-> "annunci", profile_id |-> profile_id]
ToAccedi == [to |-> "accedi", profile_id |-> None]
NoRedirect == [to |-> "none", profile_id |-> None]

\* a view left unprotected
RequireAuthSkipped(authed) == TRUE
\* require_auth: may the view run
RequireAuth(authed) == authed

\* the update's height_cm with no fallback to the stored one
KeepOldHeightNever(old, height_cm) == height_cm
\* if old and old.get("height_cm") is not None: height_cm = int(old["height_cm"])
KeepOldHeight(old, height_cm) ==
    IF old # None /\ old.height_cm # None THEN PyInt(old.height_cm.v) ELSE height_cm

create_or_update_profile(form, authed, profs, msgs, new_id, clock) ==
    LET profile_id == FormGet(form, "profile_id")
        action == FormGet(form, "action")
        \* int(profile_id): None stands for the ValueError
        pid == IF Truthy(profile_id) THEN ParseInt(profile_id.v) ELSE None
        first_name == FormText(form, "first_name")
        gender == Lower(FormText(form, "gender"))
        bio == FormText(form, "bio")
        height_m == _to_float(FormGet(form, "height_m"))
        crash(calls) == Response("500", <<>>, NoRedirect, calls, <<>>, profs, msgs)
    IN
    IF ~RequireAuth(authed)
    THEN Response("302", <<FlashAuth>>, ToAccedi, <<>>, <<>>, profs, msgs)
    ELSE IF Truthy(profile_id) /\ action = PyStr(sDelete)
    THEN \* === DELETE ===
         IF pid = None THEN crash(<<>>)
         ELSE LET out == delete_profile(profs, msgs, pid.v)
              IN  IF out.raised THEN crash(<<"delete_profile">>)
                  ELSE Response("302", <<FlashDeleted>>, ToAnnunci(None),
                                <<"delete_profile">>, <<>>, out.profiles, out.messages)
    ELSE IF height_m = NonFinite
    THEN crash(<<>>)     \* int(round(nan)) raises
    ELSE
    LET height_cm0 == IF height_m # None THEN PyInt(RoundCm(height_m.milli))
                      ELSE _to_int(FormGet(form, "height_cm"))
        \* se update, non sovrascrivere con None
        lookup == Truthy(profile_id) /\ height_cm0 = None
    IN
    IF lookup /\ pid = None THEN crash(<<>>)
    ELSE
    LET old == IF lookup THEN get_profile_by_id(profs, pid.v) ELSE None
        height_cm == IF lookup THEN KeepOldHeight(old, height_cm0) ELSE height_cm0
        calls0 == IF lookup THEN <<"get_profile_by_id">> ELSE <<>>
        errors == ValidationErrors(first_name, gender, bio, height_m)
        args == ProfileArgs(form, height_cm)
    IN
    IF errors # <<>>
    THEN Response("302", [i \in 1..Len(errors) |-> [msg |-> errors[i], cat |-> "danger"]],
                  ToAnnunci(IF Truthy(profile_id) THEN profile_id ELSE None),
                  calls0, errors, profs, msgs)
    ELSE IF Truthy(profile_id)
    THEN \* === UPDATE ===
         IF pid = None THEN crash(calls0)
         ELSE Response("302", <<FlashUpdated>>, ToAnnunci(None),
                       calls0 \o <<"update_profile">>, <<>>,
                       update_profile(profs, pid.v, args), msgs)
    ELSE \* === INSERT ===
         Response("302", <<FlashCreated>>, ToAnnunci(None),
                  calls0 \o <<"insert_profile">>, <<>>,
                  insert_profile(profs, new_id, args, PyStr(strftime(clock)), clock), msgs)

-----------------------------------------------------------------------------
(* Bounds and the rows a behaviour starts from *)

MaxSeedRows == 3      \* profile rows already stored when a behaviour starts
MaxSeedMsgs == 2      \* message rows already stored when a behaviour starts
MaxMessages == 3      \* cap on the message id counter
MaxProfiles == 1      \* cap on the profile id counter
MaxClock == 1         \* the clock's last second

Clients == {"c1", "c2"}

sAnna == <<"A","n","n","a">>
sBo == <<"B","o">>
sHi == <<"h","i">>
sM == <<"m">>
sAt == <<"a","@","b">>
sTo == <<"T","o">>
sTel == <<"3","3","3">>

\* a profiles row as the application writes it, by id, height_cm and created_at
SeedRow(id, height_cm, created_at) ==
    [id |-> PyInt(id), first_name |-> PyStr(sAnna), last_name |-> PyStr(sBo),
     gender |-> PyStr(sM), birth_year |-> None, city |-> PyStr(<<>>),
     occupation |-> PyStr(<<>>), eyes_color |-> PyStr(<<>>), hair_color |-> PyStr(<<>>),
     height_cm |-> height_cm, smoker |-> PyInt(0), bio |-> PyStr(sHi),
     is_active |-> PyInt(1), created_at |-> created_at, weight_kg |-> None,
     marital_status |-> PyStr(<<>>), zodiac_sign |-> PyStr(<<>>)]

\* the sender fields of a valid contact, as send_message passes them on
SeedMessageParams(profile_id) ==
    [sender_name |-> PyStr(sTo), sender_phone |-> PyStr(sTel),
     sender_email |-> PyStr(sAt), sender_job |-> PyStr(<<"-">>),
     sender_age |-> PyInt(30), sender_city |-> PyStr(sTo),
     sender_message |-> PyStr(<<"-">>), profile_id |-> profile_id]

SeedMessage(id, profile_id) ==
    [c \in MessageColumns |->
       IF c = "id" THEN PyInt(id)
       ELSE IF c = "created_at" THEN PyStr(strftime([year |-> 2024, sec |-> 0]))
       ELSE SeedMessageParams(profile_id)[c]]

\* created_at of rows that predate the application's own inserts
CreatedSeeds ==
    {None, PyStr(<<>>), PyStr(strftime([year |-> 2023, sec |-> 0])),
     PyStr(strftime([year |-> 2024, sec |-> 0]))}

\* every table of at most MaxSeedRows rows with ids 1..MaxSeedRows
DaoSeedProfiles ==
    UNION {{{SeedRow(i, None, f[i]) : i \in D} : f \in [D -> CreatedSeeds]}
             : D \in SUBSET (1..MaxSeedRows)}

\* every messages table of at most MaxSeedMsgs rows whose profile_id is NULL
\* or names a stored profile
DaoSeedMessages(profs) ==
    LET refs == {None} \cup {r.id : r \in profs}
    IN  UNION {{{SeedMessage(i, f[i]) : i \in 1..n} : f \in [1..n -> refs]}
                 : n \in 0..MaxSeedMsgs}

\* no call or request is being answered
Idle == [op |-> "idle"]

NoSession == [c \in Clients |-> [is_authenticated |-> FALSE, form_errors |-> FALSE]]
NoLogin == [c \in Clients |-> None]
\* no request is in flight
NoProcs == [c \in Clients |-> [pc |-> "idle"]]

-----------------------------------------------------------------------------
(* SpecDao: the two persistence modules called directly *)

DaoInit ==
    /\ dao \in {"profiles_dao", "profiles_dao1"}
    /\ profiles \in DaoSeedProfiles
    /\ messages \in DaoSeedMessages(profiles)
    /\ next_profile_id = MaxSeedRows + 1
    /\ next_message_id = MaxSeedMsgs + 1
    /\ session = NoSession
    /\ login_by = NoLogin
    /\ now = [year |-> 2025, sec |-> 0]
    /\ ret = Idle
    /\ procs = NoProcs

\* the caller has taken the result of the last call or request
Respond ==
    /\ ret.op # "idle"
    /\ ret' = Idle
    /\ UNCHANGED <<profiles, messages, next_profile_id, next_message_id, dao,
                   session, login_by, now, procs>>

DaoGetAllProfiles ==
    /\ ret.op = "idle"
    /\ ret' = [op |-> "get_all_profiles",
               rows |-> IF dao = "profiles_dao" THEN get_all_profiles(profiles)
                        ELSE get_all_profiles1(profiles)]
    /\ UNCHANGED <<profiles, messages, next_profile_id, next_message_id, dao,
                   session, login_by, now, procs>>

DaoGetProfileById(profile_id) ==
    /\ ret.op = "idle"
    /\ ret' = [op |-> "get_profile_by_id", profile_id |-> profile_id,
               row |-> get_profile_by_id(profiles, profile_id)]
    /\ UNCHANGED <<profiles, messages, next_profile_id, next_message_id, dao,
                   session, login_by, now, procs>>

DaoDeleteProfile(profile_id) ==
    LET out == IF dao = "profiles_dao" THEN delete_profile(profiles, messages, profile_id)
               ELSE delete_profile1(profiles, messages, profile_id)
    IN  /\ ret.op = "idle"
        /\ profiles' = out.profiles
        /\ messages' = out.messages
        /\ ret' = [op |-> "delete_profile", profile_id |-> profile_id,
                   raised |-> out.raised]
        /\ UNCHANGED <<next_profile_id, next_message_id, dao, session, login_by, now, procs>>

DaoInsertMessage(profile_id) ==
    LET out == insert_message(profiles, messages, next_message_id,
                              SeedMessageParams(profile_id), now)
    IN  /\ ret.op = "idle"
        /\ next_message_id <= MaxMessages
        /\ messages' = out.messages
        \* a failed INSERT consumes no id here (SQLite), or one (a PostgreSQL
        \* sequence): ids stay unique either way
        /\ next_message_id' = next_message_id + 1
        /\ ret' = [op |-> "insert_message", profile_id |-> profile_id,
                   raised |-> out.raised]
        /\ UNCHANGED <<profiles, next_profile_id, dao, session, login_by, now, procs>>

DaoNext ==
    \/ Respond
    \/ DaoGetAllProfiles
    \/ \E i \in 1..MaxSeedRows : DaoGetProfileById(i)
    \/ \E i \in 1..MaxSeedRows : DaoDeleteProfile(i)
    \/ \E p \in {None} \cup {PyInt(i) : i \in 1..MaxSeedRows} : DaoInsertMessage(p)

SpecDao == DaoInit /\ [][DaoNext]_vars

-----------------------------------------------------------------------------
(* Spec: the profile lifecycle through create_or_update_profile *)

ADMIN_PASSCODE == <<"0","9","9","0">>

\* a submitted form: the keys whose option is not None, with their text
Form(opts) == [k \in {x \in DOMAIN opts : opts[x] # None} |-> opts[k].v]

sAnnaPadded == <<" ","A","n","n","a"," ">>
sLi == <<"L","i">>

Opt(S) == {None} \cup {PyStr(x) : x \in S}

\* profile_id as submitted: absent, an id the table can hold, or not a number
ProfileIdOpts == Opt({NatToDigits(i, 1) : i \in 1..MaxProfiles} \cup {<<"x">>})
\* ... and the two most forms use: absent (create) or the first id (update)
FirstIdOpts == Opt({<<"1">>})

\* forms that differ in the fields the validation reads
ValidityForms ==
    {Form([profile_id |-> pid, first_name |-> fn, last_name |-> PyStr(sBo),
           gender |-> g, bio |-> b, height_m |-> hm])
       : pid \in FirstIdOpts,
         fn \in {PyStr(<<>>), PyStr(sAnnaPadded)},
         g \in {None, PyStr(<<"M">>)},
         b \in {PyStr(<<" ">>), PyStr(sHi)},
         hm \in {None, PyStr(<<"2",".","5","1">>)}}

\* forms, valid otherwise, that differ in the height submitted
HeightForms ==
    {Form([profile_id |-> pid, first_name |-> PyStr(sAnnaPadded),
           last_name |-> PyStr(sBo), gender |-> PyStr(<<"M">>), bio |-> PyStr(sHi),
           height_m |-> hm, height_cm |-> hc])
       : pid \in FirstIdOpts,
         hm \in Opt({<<"0",".","9","9">>, <<"0",".","9","9","6">>, <<"1",".","0","0">>,
                     <<"1",",","7","5">>, <<"2",".","5","0">>, <<"2",".","5","0","4">>,
                     <<"2",".","5","1">>, <<"a","b","c">>, sNan}),
         hc \in Opt({<<"5">>})}

\* a valid form without height whose other fields differ from the forms above,
\* and the forms that carry the delete marker
OtherForms ==
    {Form([profile_id |-> pid, action |-> act, first_name |-> PyStr(sAnnaPadded),
           last_name |-> PyStr(sLi), gender |-> PyStr(<<" ","F">>), bio |-> PyStr(sHi),
           birth_year |-> PyStr(<<"1","9","9","0">>), smoker |-> PyStr(<<"o","n">>)])
       : pid \in ProfileIdOpts, act \in Opt({sDelete})}

LifeForms == ValidityForms \cup HeightForms \cup OtherForms

LifeInit ==
    /\ dao = "profiles_dao"
    /\ profiles = {}
    /\ messages = {}
    /\ next_profile_id = 1
    /\ next_message_id = 1
    /\ session = [c \in Clients |->
                    [is_authenticated |-> (c = "c1"), form_errors |-> FALSE]]
    /\ login_by = [c \in Clients |-> IF c = "c1" THEN PyStr(ADMIN_PASSCODE) ELSE None]
    /\ now = [year |-> 2025, sec |-> 0]
    /\ ret = Idle
    /\ procs = NoProcs

\* a second passes
Tick ==
    /\ ret.op = "idle"
    /\ now.sec < MaxClock
    /\ now' = [now EXCEPT !.sec = @ + 1]
    /\ UNCHANGED <<profiles, messages, next_profile_id, next_message_id, dao,
                   session, login_by, ret, procs>>

\* POST /create_or_update_profile by client c, while the ids the table has
\* handed out are at most last_id
CreateOrUpdateProfileUpTo(c, form, last_id) ==
    /\ ret.op = "idle"
    /\ \E out \in {create_or_update_profile(form, session[c].is_authenticated, profiles,
                                            messages, next_profile_id, now)} :
         LET inserted == \E i \in 1..Len(out.calls) : out.calls[i] = "insert_profile"
         IN  /\ inserted => next_profile_id <= last_id
             /\ profiles' = out.profiles
             /\ messages' = out.messages
             /\ next_profile_id' =
                  IF inserted THEN next_profile_id + 1 ELSE next_profile_id
             /\ ret' = [op |-> "create_or_update_profile", client |-> c, form |-> form,
                        authed |-> session[c].is_authenticated, status |-> out.status,
                        flashes |-> out.flashes, redirect |-> out.redirect,
                        calls |-> out.calls, errors |-> out.errors]
    /\ UNCHANGED <<next_message_id, dao, session, login_by, now, procs>>

CreateOrUpdateProfile(c, form) == CreateOrUpdateProfileUpTo(c, form, MaxProfiles)

Next ==
    \/ Respond
    \/ Tick
    \/ \E form \in LifeForms : CreateOrUpdateProfile("c1", form)

Spec == LifeInit /\ [][Next]_vars

-----------------------------------------------------------------------------
(* Claims about the persistence modules (SpecDao) *)

\* the list rows holds every row of table S exactly once
ListsTable(rows, S) ==
    /\ Len(rows) = Cardinality(S)
    /\ {rows[i] : i \in 1..Len(rows)} = S

\* C1: after delete_profile(P), under either persistence module: no error; every
\* message that named P is still stored with its sender fields unchanged and
\* profile_id null; every other message is unchanged; P is absent from
\* get_all_profiles and get_profile_by_id.
C1_DeleteDetaches ==
    [][ret'.op = "delete_profile" =>
         LET P == ret'.profile_id
             listed == IF dao = "profiles_dao" THEN get_all_profiles(profiles')
                       ELSE get_all_profiles1(profiles')
         IN  /\ ~ret'.raised
             /\ messages' = DetachMessages(messages, P)
             /\ get_profile_by_id(profiles', P) = None
             /\ \A i \in 1..Len(listed) : listed[i].id # PyInt(P)
             /\ profiles' = {r \in profiles : r.id # PyInt(P)}]_vars

\* C6: get_all_profiles returns all profiles; rows with null or empty
\* created_at come after all rows with a non-empty one; rows with a non-empty
\* created_at are in descending created_at order, ties in descending id order;
\* the rows with null or empty created_at are all in descending id order; and
\* the two persistence modules yield the same list.
C6_OrderAsClaimed ==
    ret.op = "get_all_profiles" =>
      LET rows == ret.rows
      IN  /\ ListsTable(rows, profiles)
          /\ \A i, j \in 1..Len(rows) : i < j =>
               /\ ~(CreatedMissing(rows[i]) /\ ~CreatedMissing(rows[j]))
               /\ (~CreatedMissing(rows[i]) /\ ~CreatedMissing(rows[j])) =>
                    /\ ~StrLess(rows[i].created_at.v, rows[j].created_at.v)
                    /\ rows[i].created_at = rows[j].created_at =>
                         rows[i].id.v > rows[j].id.v
               /\ (CreatedMissing(rows[i]) /\ CreatedMissing(rows[j])) =>
                    rows[i].id.v > rows[j].id.v
          /\ get_all_profiles(profiles) = get_all_profiles1(profiles)

-----------------------------------------------------------------------------
(* Claims about create_or_update_profile (Spec) *)

CallSet(calls) == {calls[i] : i \in 1..Len(calls)}
WriteCalls == {"insert_profile", "update_profile", "delete_profile"}
ErrorSet(errors) == {errors[i] : i \in 1..Len(errors)}

\* the text submitted under key k, the empty text when the key is absent
Submitted(form, k) == IF k \in DOMAIN form THEN form[k] ELSE <<>>

\* the rules of the create/update contract a form violates, as the
\* specification words them
ViolatedRules(form) ==
    LET h == _to_float(FormGet(form, "height_m"))
    IN  (IF Strip(Submitted(form, "first_name")) = <<>> THEN {ErrFirstName} ELSE {})
          \cup (IF Submitted(form, "gender") = <<>> THEN {ErrGender} ELSE {})
          \cup (IF Submitted(form, "bio") = <<>> THEN {ErrBio} ELSE {})
          \cup (IF h # None /\ h # NonFinite /\ (h.milli < 1000 \/ h.milli > 2500)
                THEN {ErrHeight} ELSE {})

\* a request whose validation reported errors: every violated rule has its
\* message, each message once; the redirect keeps the submitted profile_id of
\* an update and carries none for a create; the stored rows are unchanged
ValidationFailureReported(r, before, after) ==
    /\ ViolatedRules(r.form) \subseteq ErrorSet(r.errors)
    /\ Cardinality(ErrorSet(r.errors)) = Len(r.errors)
    /\ r.flashes = [i \in 1..Len(r.errors) |-> [msg |-> r.errors[i], cat |-> "danger"]]
    /\ r.redirect.to = "annunci"
    /\ r.redirect.profile_id =
         (IF Submitted(r.form, "profile_id") # <<>>
          THEN PyStr(r.form.profile_id) ELSE None)
    /\ after = before

\* C7: when a create or update request fails validation no
\* persistence call is made, the stored profiles are unchanged, the error
\* list has one message for every violated rule, a failed update redirects
\* with its profile_id and a failed create with none.
C7_NoPersistenceCall ==
    [][(ret'.op = "create_or_update_profile" /\ ret'.errors # <<>>) =>
          /\ ret'.calls = <<>>
          /\ ValidationFailureReported(ret', profiles, profiles')]_vars

\* has the form a height in meters given in hundredths of a meter
HundredthsOfMeter(form) ==
    LET h == _to_float(FormGet(form, "height_m"))
    IN  h # None /\ h # NonFinite /\ h.milli % 10 = 0

\* C8: for a meters height h given in hundredths: when 1.00 <= h <= 2.50 and
\* the other required fields are valid, the row the request creates or updates
\* has height_cm = round(h * 100); when h < 1.00 or h > 2.50 validation fails
\* and nothing is stored.
C8_HeightStored ==
    [][(/\ ret'.op = "create_or_update_profile"
        /\ ret'.authed
        /\ HundredthsOfMeter(ret'.form)) =>
          LET h == _to_float(FormGet(ret'.form, "height_m")).milli
              cm == PyInt(h \div 10)
              others_valid == ViolatedRules(ret'.form) \subseteq {ErrHeight}
          IN  IF 1000 <= h /\ h <= 2500
              THEN others_valid =>
                     /\ ret'.errors = <<>>
                     /\ IF Submitted(ret'.form, "profile_id") = <<>>
                        THEN \E r \in profiles' :
                               /\ profiles' = profiles \cup {r}
                               /\ r \notin profiles
                               /\ r.height_cm = cm
                        ELSE /\ "update_profile" \in CallSet(ret'.calls)
                             /\ \A r \in profiles' :
                                  r.id = ParseInt(ret'.form.profile_id) =>
                                    r.height_cm = cm
              ELSE /\ ErrHeight \in ErrorSet(ret'.errors)
                   /\ CallSet(ret'.calls) \cap WriteCalls = {}
                   /\ profiles' = profiles]_vars

\* C8, the case: a create with height_m = "1,75" stored 175, and an update
\* with height_m = "2.50" stored 250.
C8_Witness ==
    /\ ret.op = "create_or_update_profile"
    /\ "update_profile" \in CallSet(ret.calls)
    /\ Submitted(ret.form, "height_m") = <<"2",".","5","0">>
    /\ \E r \in profiles : r.id = PyInt(1) /\ r.height_cm = PyInt(250)

\* did the request update a stored row, with no height submitted
UpdateWithoutHeight(r, before) ==
    /\ r.op = "create_or_update_profile"
    /\ "update_profile" \in CallSet(r.calls)
    /\ Strip(Submitted(r.form, "height_m")) = <<>>
    /\ Strip(Submitted(r.form, "height_cm")) = <<>>
    /\ \E row \in before : row.id = ParseInt(r.form.profile_id)

TextColumns ==
    {"first_name", "last_name", "gender", "city", "occupation", "eyes_color",
     "hair_color", "bio", "marital_status", "zodiac_sign"}
IntColumns == {"birth_year", "weight_kg"}

\* the value submitted for a column, as submitted
SubmittedValue(form, k) ==
    IF k \in TextColumns THEN PyStr(Submitted(form, k))
    ELSE IF k \in IntColumns THEN ParseInt(Submitted(form, k))
    ELSE PyInt(IF Submitted(form, k) \in {<<"o","n">>, <<"1">>, <<"t","r","u","e">>}
               THEN 1 ELSE 0)

\* the value submitted for a column, after the handler's reading of it: text
\* trimmed, gender also lower-cased
SubmittedValueRead(form, k) ==
    IF k = "gender" THEN PyStr(Lower(Strip(Submitted(form, k))))
    ELSE IF k \in TextColumns THEN PyStr(Strip(Submitted(form, k)))
    ELSE SubmittedValue(form, k)

\* C9 as stated: a successful update that supplies no height leaves the
\* row's height_cm as it was (non-null kept, null stays null) and replaces
\* every other supplied field by the submitted value.
C9_UpdateReplacesBySubmitted ==
    [][UpdateWithoutHeight(ret', profiles) =>
          \A old \in profiles : old.id = ParseInt(ret'.form.profile_id) =>
            \E new \in profiles' :
              /\ new.id = old.id
              /\ new.height_cm = old.height_cm
              /\ \A k \in (TextColumns \cup IntColumns \cup {"smoker"})
                            \cap DOMAIN ret'.form :
                   new[k] = SubmittedValue(ret'.form, k)]_vars

\* C9 as amended: a successful update that supplies no height leaves the
\* row's height_cm as it was (non-null kept, null stays null) and replaces
\* every other supplied field by the submitted value as the handler reads it:
\* text fields trimmed of surrounding blanks, gender also lower-cased, the
\* integer fields parsed, the smoker checkbox as 0/1.
C9_UpdateKeepsHeight ==
    [][UpdateWithoutHeight(ret', profiles) =>
          \A old \in profiles : old.id = ParseInt(ret'.form.profile_id) =>
            \E new \in profiles' :
              /\ new.id = old.id
              /\ new.height_cm = old.height_cm
              /\ \A k \in (TextColumns \cup IntColumns \cup {"smoker"})
                            \cap DOMAIN ret'.form :
                   new[k] = SubmittedValueRead(ret'.form, k)
              /\ profiles' = (profiles \ {old}) \cup {new}]_vars

\* C9, the case: a stored profile with height_cm = 175 and last_name "Bo" was
\* updated by a form with no height and last_name "Li".
C9_Witness ==
    /\ ret.op = "create_or_update_profile"
    /\ "update_profile" \in CallSet(ret.calls)
    /\ "height_m" \notin DOMAIN ret.form /\ "height_cm" \notin DOMAIN ret.form
    /\ Submitted(ret.form, "last_name") = sLi
    /\ \E r \in profiles :
         r.id = PyInt(1) /\ r.height_cm = PyInt(175) /\ r.last_name = PyStr(sLi)

\* C10: every stored profile has height_cm null or an integer in 100..250.
C10_HeightInRange ==
    \A r \in profiles :
      r.height_cm = None \/ (100 <= r.height_cm.v /\ r.height_cm.v <= 250)

-----------------------------------------------------------------------------
(* SpecAuth: two clients, login, logout and the protected mutation *)

FlashLoginOk == [msg |-> "Accesso effettuato.", cat |-> "success"]
FlashLoginWrong == [msg |-> "Codice errato.", cat |-> "danger"]
FlashLogout == [msg |-> "Sei uscito dall'area riservata.", cat |-> "info"]

\* GET /accedi: pops form_data and form_errors from the session
accedi(sess) == [sess EXCEPT !.form_errors = FALSE]

\* POST /accedi
process_login(form, sess) ==
    LET password == FormText(form, "txt_password")
    IN  IF password = ADMIN_PASSCODE
        THEN [session |-> [sess EXCEPT !.is_authenticated = TRUE, !.form_errors = FALSE],
              flashes |-> <<FlashLoginOk>>, redirect |-> "annunci"]
        ELSE [session |-> [sess EXCEPT !.form_errors = TRUE],
              flashes |-> <<FlashLoginWrong>>, redirect |-> "accedi"]

\* GET /esci behind require_auth: session.clear()
esci(sess) ==
    IF ~RequireAuth(sess.is_authenticated)
    THEN [session |-> sess, flashes |-> <<FlashAuth>>, redirect |-> "accedi"]
    ELSE [session |-> [is_authenticated |-> FALSE, form_errors |-> FALSE],
          flashes |-> <<FlashLogout>>, redirect |-> "home"]

\* the ids the profiles table hands out in SpecAuth: one seeded, one created
MaxAuthIds == 2

\* the values submitted as txt_password: none, the passcode, the passcode
\* with a blank after or before it, a prefix of it, the empty text
LoginForms ==
    {Form([txt_password |-> pw])
       : pw \in Opt({ADMIN_PASSCODE, ADMIN_PASSCODE \o <<" ">>, <<" ">> \o ADMIN_PASSCODE,
                     SubSeq(ADMIN_PASSCODE, 1, 3), <<>>})}

\* a valid create, a valid update and a delete of either id
AuthForms ==
    {Form([profile_id |-> pid, action |-> act, first_name |-> PyStr(sAnna),
           last_name |-> PyStr(sLi), gender |-> PyStr(sM), bio |-> PyStr(sHi)])
       : pid \in Opt({NatToDigits(i, 1) : i \in 1..MaxAuthIds}), act \in Opt({sDelete})}

AuthInit ==
    /\ dao = "profiles_dao"
    /\ profiles = {SeedRow(1, None, PyStr(strftime([year |-> 2024, sec |-> 0])))}
    /\ messages = {SeedMessage(1, PyInt(1))}
    /\ next_profile_id = 2
    /\ next_message_id = 2
    /\ session = NoSession
    /\ login_by = NoLogin
    /\ now = [year |-> 2025, sec |-> 0]
    /\ ret = Idle
    /\ procs = NoProcs

\* GET /accedi by client c
Accedi(c) ==
    /\ ret.op = "idle"
    /\ session' = [session EXCEPT ![c] = accedi(session[c])]
    /\ ret' = [op |-> "accedi", client |-> c]
    /\ UNCHANGED <<profiles, messages, next_profile_id, next_message_id, dao,
                   login_by, now, procs>>

\* POST /accedi by client c; login_by remembers the value that set the flag
ProcessLogin(c, form) ==
    /\ ret.op = "idle"
    /\ \E out \in {process_login(form, session[c])} :
         /\ session' = [session EXCEPT ![c] = out.session]
         /\ login_by' = IF out.redirect = "annunci"
                        THEN [login_by EXCEPT ![c] = FormGet(form, "txt_password")]
                        ELSE login_by
         /\ ret' = [op |-> "process_login", client |-> c, form |-> form,
                    flashes |-> out.flashes, redirect |-> out.redirect]
    /\ UNCHANGED <<profiles, messages, next_profile_id, next_message_id, dao, now, procs>>

\* GET /esci by client c; a cleared session forgets its login
Esci(c) ==
    /\ ret.op = "idle"
    /\ \E out \in {esci(session[c])} :
         /\ session' = [session EXCEPT ![c] = out.session]
         /\ login_by' = IF out.redirect = "home"
                        THEN [login_by EXCEPT ![c] = None] ELSE login_by
         /\ ret' = [op |-> "esci", client |-> c, flashes |-> out.flashes,
                    redirect |-> out.redirect]
    /\ UNCHANGED <<profiles, messages, next_profile_id, next_message_id, dao, now, procs>>

AuthNext ==
    \/ Respond
    \/ \E c \in Clients : Accedi(c)
    \/ \E c \in Clients, form \in LoginForms : ProcessLogin(c, form)
    \/ \E c \in Clients : Esci(c)
    \/ \E c \in Clients, form \in AuthForms : CreateOrUpdateProfileUpTo(c, form, MaxAuthIds)

SpecAuth == AuthInit /\ [][AuthNext]_vars

\* the request just answered made a persistence write
MutationBy(r) ==
    /\ r.op = "create_or_update_profile"
    /\ CallSet(r.calls) \cap WriteCalls # {}

\* C2 as stated: a profile insert, update or delete through
\* create_or_update_profile happens only in a session whose is_authenticated
\* flag was set by a process_login whose submitted value equals the admin
\* passcode, with no esci since; a login with a value other than the passcode
\* never sets the flag; an unauthenticated mutation request leaves profiles
\* and messages unchanged.
C2_SubmittedEqualsPasscode ==
    [][/\ MutationBy(ret') =>
            /\ session[ret'.client].is_authenticated
            /\ login_by[ret'.client] = PyStr(ADMIN_PASSCODE)
       /\ (ret'.op = "process_login"
             /\ FormGet(ret'.form, "txt_password") # PyStr(ADMIN_PASSCODE)) =>
            session'[ret'.client].is_authenticated
              = session[ret'.client].is_authenticated
       /\ (ret'.op = "create_or_update_profile"
             /\ ~session[ret'.client].is_authenticated) =>
            /\ profiles' = profiles
            /\ messages' = messages
            /\ CallSet(ret'.calls) = {}]_vars

\* the submitted value, trimmed of surrounding blanks, is the passcode
IsPasscodeTrimmed(v) == v # None /\ Strip(v.v) = ADMIN_PASSCODE

\* C2 as amended: a profile insert, update or delete through
\* create_or_update_profile happens only in a session whose is_authenticated
\* flag was set by a process_login whose submitted value, trimmed of
\* surrounding blanks, equals the admin passcode, with no esci since; a login
\* whose trimmed value is not the passcode never sets the flag; an
\* unauthenticated mutation request leaves profiles and messages unchanged.
C2_AuthGatesMutation ==
    [][/\ MutationBy(ret') =>
            /\ session[ret'.client].is_authenticated
            /\ IsPasscodeTrimmed(login_by[ret'.client])
       /\ (ret'.op = "process_login"
             /\ ~IsPasscodeTrimmed(FormGet(ret'.form, "txt_password"))) =>
            session'[ret'.client].is_authenticated
              = session[ret'.client].is_authenticated
       /\ (ret'.op = "create_or_update_profile"
             /\ ~session[ret'.client].is_authenticated) =>
            /\ profiles' = profiles
            /\ messages' = messages
            /\ CallSet(ret'.calls) = {}
       /\ \A c \in Clients :
            session'[c].is_authenticated <=> login_by'[c] # None]_vars

\* C2, the case: c2 deleted a profile after logging in, while c1, logged out
\* since its own login, is not authenticated.
C2_Witness ==
    /\ ret.op = "create_or_update_profile"
    /\ ret.client = "c2"
    /\ "delete_profile" \in CallSet(ret.calls)
    /\ session["c2"].is_authenticated
    /\ ~session["c1"].is_authenticated
    /\ session["c1"].form_errors
    /\ \E m \in messages : m.profile_id = None

-----------------------------------------------------------------------------
(* app.py: the published set, the filters and the listing *)

\* str(val) of a value that is not None, int or bool
PyStrOf(val) == val.v

\* the rule applied to the string form as it is, blanks included
is_published_untrimmed(val) ==
    IF val = None THEN TRUE
    ELSE IF val.t \in {"int", "bool"} THEN Truthy(val)
    ELSE ~(Lower(PyStrOf(val)) \in
             {<<"0">>, <<"f","a","l","s","e">>, <<"n","o">>, <<"n">>})
\* is_published(val)
is_published(val) ==
    IF val = None THEN TRUE
    ELSE IF val.t \in {"int", "bool"} THEN Truthy(val)
    ELSE ~(Lower(Strip(PyStrOf(val))) \in
             {<<"0">>, <<"f","a","l","s","e">>, <<"n","o">>, <<"n">>})

\* r["is_active"] if "is_active" in keys else None
ActiveOf(r) == IF "is_active" \in DOMAIN r THEN r.is_active ELSE None

\* {k: r[k] for k in keys} with profile["is_online"] = flag
WithOnline(r, flag) ==
    [k \in DOMAIN r \cup {"is_online"} |-> IF k = "is_online" THEN PyBool(flag) ELSE r[k]]

RECURSIVE PublishedOf(_, _)
\* the loop over rows; online[id] is what random.choice gives for that row
PublishedOf(rows, online) ==
    IF rows = <<>> THEN <<>>
    ELSE LET r == Head(rows)
         IN  (IF is_published(ActiveOf(r)) THEN <<WithOnline(r, online[r.id.v])>> ELSE <<>>)
               \o PublishedOf(Tail(rows), online)

get_published_profiles_with_status(profs, online) ==
    PublishedOf(get_all_profiles(profs), online)

s25to35 == <<"2","5","-","3","5">>
s35to45 == <<"3","5","-","4","5">>
s45to55 == <<"4","5","-","5","5">>
s55plus == <<"5","5","+">>

AGE_BUCKETS ==
    [k \in {s25to35, s35to45, s45to55, s55plus} |->
       CASE k = s25to35 -> <<25, 35>>
         [] k = s35to45 -> <<35, 45>>
         [] k = s45to55 -> <<45, 55>>
         [] k = s55plus -> <<55, 150>>]

sMale == <<"m","a","l","e">>
sFemale == <<"f","e","m","a","l","e">>
sUomo == <<"u","o","m","o">>
sDonna == <<"d","o","n","n","a">>

_GENDER_MAP ==
    [k \in {sMale, <<"m">>, sUomo, sFemale, <<"f">>, sDonna} |->
       IF k \in {sMale, <<"m">>, sUomo} THEN sMale ELSE sFemale]

\* _GENDER_MAP.get((val or "").strip().lower())
_norm_gender_val(val) ==
    LET v == Lower(Strip(OrElse(val, PyStr(<<>>)).v))
    IN  IF v \in DOMAIN _GENDER_MAP THEN PyStr(_GENDER_MAP[v]) ELSE None

\* p.get(k)
Get(p, k) == IF k \in DOMAIN p THEN p[k] ELSE None

\* (p.get(k) or "").strip().lower()
GetLower(p, k) == Lower(Strip(OrElse(Get(p, k), PyStr(<<>>)).v))

\* the ID check
IdMatches(p, id_q) ==
    id_q # None => (Get(p, "id") # None /\ Get(p, "id").v = id_q.v)

\* the GENDER check
GenderMatches(p, gender) ==
    Truthy(gender) => _norm_gender_val(Get(p, "gender")) = gender

\* the eyes check made only when no hair colour is asked for
HairEyesMatchEither(p, hair_color, eyes_color) ==
    IF Truthy(hair_color) THEN GetLower(p, "hair_color") = hair_color.v
    ELSE Truthy(eyes_color) => GetLower(p, "eyes_color") = eyes_color.v
\* the HAIR / EYES checks
HairEyesMatch(p, hair_color, eyes_color) ==
    /\ Truthy(hair_color) => GetLower(p, "hair_color") = hair_color.v
    /\ Truthy(eyes_color) => GetLower(p, "eyes_color") = eyes_color.v

\* the AGE RANGE check, this_year being datetime.date.today().year
AgeMatches(p, age_range, this_year) ==
    (age_range # None /\ age_range.v \in DOMAIN AGE_BUCKETS) =>
      LET by == Get(p, "birth_year")
      IN  /\ by # None
          /\ AGE_BUCKETS[age_range.v][1] <= this_year - by.v
          /\ this_year - by.v <= AGE_BUCKETS[age_range.v][2]

\* the NAME check
NameMatches(p, name_q) ==
    Truthy(name_q) =>
      LET fn == GetLower(p, "first_name")
          ln == GetLower(p, "last_name")
          full == Strip(fn \o <<" ">> \o ln)
      IN  Contains(name_q.v, fn) \/ Contains(name_q.v, ln) \/ Contains(name_q.v, full)

_profile_matches_filters(p, gender, age_range, hair_color, eyes_color, name_q, id_q, this_year) ==
    /\ IdMatches(p, id_q)
    /\ GenderMatches(p, gender)
    /\ HairEyesMatch(p, hair_color, eyes_color)
    /\ AgeMatches(p, age_range, this_year)
    /\ NameMatches(p, name_q)

\* (request.args.get(k) or "").strip() or None
ArgText(args, k) ==
    LET v == FormText(args, k) IN IF v = <<>> THEN None ELSE PyStr(v)

\* (request.args.get(k) or "").strip().lower() or None
ArgLower(args, k) ==
    LET v == Lower(FormText(args, k)) IN IF v = <<>> THEN None ELSE PyStr(v)

\* cap(val)
cap(val) ==
    LET t == Strip(OrElse(val, PyStr(<<>>)).v)
    IN  IF t = <<>> THEN PyStr(<<>>)
        ELSE PyStr(<<UpperChar(t[1])>> \o Lower(Tail(t)))

\* {**p, "first_name": cap(...), "last_name": cap(...)}
Presented(p) ==
    [k \in DOMAIN p \cup {"first_name", "last_name"} |->
       IF k \in {"first_name", "last_name"} THEN cap(Get(p, k)) ELSE p[k]]

\* the name and id criteria are read for every caller
ExtraFiltersForAll(authed) == TRUE
\* if session.get("is_authenticated"): the name and id criteria are read
ExtraFilters(authed) == authed

\* GET /annunci: the list shown and the profile opened for editing
annunci(args, authed, profs, online, this_year) ==
    LET gender_in == ArgLower(args, "gender")
        age_range == ArgText(args, "age_range")
        hair_color == ArgLower(args, "hair_color")
        eyes_color == ArgLower(args, "eyes_color")
        name_q == IF ExtraFilters(authed) THEN ArgLower(args, "name") ELSE None
        raw == FormText(args, "id")
        id_q == IF ExtraFilters(authed) /\ IsDigitStr(raw)
                THEN PyInt(DigitsToNat(raw)) ELSE None
        gender == _norm_gender_val(gender_in)
        all_profiles == get_published_profiles_with_status(profs, online)
        listObjProfiles ==
          SelectSeq(all_profiles,
                    LAMBDA p : _profile_matches_filters(p, gender, age_range, hair_color,
                                                        eyes_color, name_q, id_q, this_year))
        profile_id == FormGet(args, "profile_id")
        open == Truthy(profile_id) /\ authed
        pid == IF open THEN ParseInt(profile_id.v) ELSE None
        row == IF open /\ pid # None THEN get_profile_by_id(profs, pid.v) ELSE None
    IN  IF open /\ pid = None
        THEN [status |-> "500", listObjProfiles |-> <<>>, profile_to_edit |-> None,
              to_edit |-> FALSE]
        ELSE [status |-> "200",
              listObjProfiles |-> [i \in 1..Len(listObjProfiles) |->
                                     Presented(listObjProfiles[i])],
              profile_to_edit |-> row, to_edit |-> row # None]

-----------------------------------------------------------------------------
(* SpecPublished: get_published_profiles_with_status over tables whose rows
   differ in is_active *)

MaxActiveRows == 2     \* rows of a stored table

sFalsePadded == <<" ","F","a","l","s","e"," ">>

\* the is_active values a row can carry
ActiveValues ==
    {None, PyInt(0), PyInt(1), PyInt(2), PyBool(FALSE), PyBool(TRUE),
     PyStr(<<"0">>), PyStr(sFalsePadded), PyStr(<<"N","O">>), PyStr(<<"n">>),
     PyStr(<<"y","e","s">>), PyStr(<<>>), PyFloat(<<"0",".","0">>)}

\* marks a row that has no is_active key
Absent == [t |-> "absent"]

\* the seed row with is_active = v, or with no is_active key when v = Absent
ActiveRow(id, v) ==
    LET r == SeedRow(id, None, PyStr(strftime([year |-> 2024, sec |-> 0])))
    IN  IF v = Absent THEN [k \in DOMAIN r \ {"is_active"} |-> r[k]]
        ELSE [r EXCEPT !.is_active = v]

ActiveTables ==
    UNION {{{ActiveRow(i, f[i]) : i \in 1..n}
              : f \in [1..n -> ActiveValues \cup {Absent}]} : n \in 0..MaxActiveRows}

\* what random.choice can give for each row of a table
OnlineChoices(profs) == [{r.id.v : r \in profs} -> BOOLEAN]

PublishedInit ==
    /\ dao = "profiles_dao"
    /\ profiles \in ActiveTables
    /\ messages = {}
    /\ next_profile_id = MaxActiveRows + 1
    /\ next_message_id = 1
    /\ session = NoSession
    /\ login_by = NoLogin
    /\ now = [year |-> 2025, sec |-> 0]
    /\ ret = Idle
    /\ procs = NoProcs

GetPublishedProfilesWithStatus ==
    /\ ret.op = "idle"
    /\ \E online \in OnlineChoices(profiles) :
         ret' = [op |-> "get_published_profiles_with_status",
                 rows |-> get_published_profiles_with_status(profiles, online)]
    /\ UNCHANGED <<profiles, messages, next_profile_id, next_message_id, dao,
                   session, login_by, now, procs>>

PublishedNext == Respond \/ GetPublishedProfilesWithStatus

SpecPublished == PublishedInit /\ [][PublishedNext]_vars

-----------------------------------------------------------------------------
(* SpecFilter: _profile_matches_filters over published rows and criteria *)

MaxFilterRows == 2     \* rows of a published table

sBlack == <<"b","l","a","c","k">>
sBlue == <<"b","l","u","e">>
sAn == <<"a","n">>
s18to25 == <<"1","8","-","2","5">>

\* three people who differ in every field the filters read, and one whose
\* profile is not published
PersonRow(id, k) ==
    LET r == SeedRow(id, None, PyStr(strftime([year |-> 2024, sec |-> 0])))
    IN  CASE k = 1 -> [r EXCEPT !.gender = PyStr(<<"m">>),
                                !.hair_color = PyStr(<<"B","l","a","c","k">>),
                                !.eyes_color = PyStr(sBlue), !.birth_year = PyInt(1995)]
          [] k = 2 -> [r EXCEPT !.first_name = PyStr(<<" ","a","n","n","a">>),
                                !.last_name = PyStr(<<"L","I">>),
                                !.gender = PyStr(<<"D","o","n","n","a">>),
                                !.hair_color = PyStr(<<" ","b","l","a","c","k"," ">>),
                                !.eyes_color = PyStr(<<"G","r","e","e","n">>),
                                !.birth_year = PyInt(1990)]
          [] k = 3 -> [r EXCEPT !.first_name = PyStr(sBo), !.last_name = None,
                                !.gender = PyStr(<<"x">>), !.hair_color = None,
                                !.eyes_color = None]
          [] OTHER -> [r EXCEPT !.is_active = PyInt(0)]

PersonTables(kinds, max_rows) ==
    UNION {{{PersonRow(i, f[i]) : i \in 1..n} : f \in [1..n -> kinds]} : n \in 0..max_rows}

CriteriaKeys == {"id", "gender", "hair_color", "eyes_color", "age_range", "name"}

\* the criteria as the function receives them, None for one not supplied
Criteria ==
    [id : {None, PyInt(1), PyInt(2)},
     gender : Opt({sMale, <<"x">>}),
     hair_color : Opt({sBlack}),
     eyes_color : Opt({sBlue}),
     age_range : Opt({s25to35, s18to25}),
     name : Opt({sAn})]

\* the criteria of crit whose key is in keys, the others not supplied
Restrict(crit, keys) == [k \in CriteriaKeys |-> IF k \in keys THEN crit[k] ELSE None]

\* [p for p in rows if _profile_matches_filters(p, ...)], as a set
Accepted(rows, crit, this_year) ==
    {p \in rows : _profile_matches_filters(p, crit.gender, crit.age_range, crit.hair_color,
                                           crit.eyes_color, crit.name, crit.id, this_year)}

FilterInit ==
    /\ dao = "profiles_dao"
    /\ profiles \in PersonTables(1..3, MaxFilterRows)
    /\ messages = {}
    /\ next_profile_id = MaxFilterRows + 1
    /\ next_message_id = 1
    /\ session = NoSession
    /\ login_by = NoLogin
    /\ now = [year |-> 2025, sec |-> 0]
    /\ ret = Idle
    /\ procs = NoProcs

\* the filter applied to every row: with all of crit, and with each criterion
\* of crit alone
ProfileMatchesFilters(crit) ==
    /\ ret.op = "idle"
    /\ ret' = [op |-> "_profile_matches_filters", criteria |-> crit,
               accepted |-> Accepted(profiles, crit, now.year),
               alone |-> [k \in CriteriaKeys |->
                            Accepted(profiles, Restrict(crit, {k}), now.year)]]
    /\ UNCHANGED <<profiles, messages, next_profile_id, next_message_id, dao,
                   session, login_by, now, procs>>

FilterNext == Respond \/ \E crit \in Criteria : ProfileMatchesFilters(crit)

SpecFilter == FilterInit /\ [][FilterNext]_vars

-----------------------------------------------------------------------------
(* SpecList: GET /annunci by an authenticated and an unauthenticated client *)

MaxListRows == 2       \* rows of a stored table

\* gender alone or with an age range, hair colour alone or with an eyes colour
PublicArgs ==
    {Form([gender |-> g[1], age_range |-> g[2], hair_color |-> h[1], eyes_color |-> h[2]])
       : g \in {<<None, None>>, <<PyStr(<<" ","M"," ">>), None>>,
                <<PyStr(<<" ","M"," ">>), PyStr(s25to35)>>},
         h \in {<<None, None>>, <<PyStr(<<"B","L","A","C","K">>), None>>,
                <<PyStr(<<"B","L","A","C","K">>), PyStr(sBlue)>>}}

ExtraArgs ==
    {Form([id |-> i, name |-> n])
       : i \in Opt({<<"2">>}), n \in Opt({<<"L","i">>})}
      \cup {Form([id |-> PyStr(<<"1">>), profile_id |-> PyStr(<<"1">>)]),
            Form([profile_id |-> PyStr(<<"x">>)])}

\* the query strings sent: the public criteria joined with the extra ones
ListArgs ==
    {[k \in DOMAIN pa \cup DOMAIN ea |-> IF k \in DOMAIN pa THEN pa[k] ELSE ea[k]]
       : pa \in PublicArgs, ea \in ExtraArgs}

ListInit ==
    /\ dao = "profiles_dao"
    /\ profiles \in PersonTables({1, 2, 4}, MaxListRows)
    /\ messages = {}
    /\ next_profile_id = MaxListRows + 1
    /\ next_message_id = 1
    /\ session = [c \in Clients |->
                    [is_authenticated |-> (c = "c1"), form_errors |-> FALSE]]
    /\ login_by = [c \in Clients |-> IF c = "c1" THEN PyStr(ADMIN_PASSCODE) ELSE None]
    /\ now = [year |-> 2025, sec |-> 0]
    /\ ret = Idle
    /\ procs = NoProcs

\* GET /annunci by client c
Annunci(c, args) ==
    /\ ret.op = "idle"
    /\ \E online \in OnlineChoices(profiles) :
         \E out \in {annunci(args, session[c].is_authenticated, profiles, online, now.year)} :
           ret' = [op |-> "annunci", client |-> c, args |-> args,
                   authed |-> session[c].is_authenticated, status |-> out.status,
                   listObjProfiles |-> out.listObjProfiles,
                   profile_to_edit |-> out.profile_to_edit, to_edit |-> out.to_edit]
    /\ UNCHANGED <<profiles, messages, next_profile_id, next_message_id, dao,
                   session, login_by, now, procs>>

ListNext == Respond \/ \E c \in Clients, args \in ListArgs : Annunci(c, args)

SpecList == ListInit /\ [][ListNext]_vars

-----------------------------------------------------------------------------
(* Claims about the listing (SpecList, SpecPublished, SpecFilter) *)

\* a listed profile without its is_online flag
NoOnline(p) == [k \in DOMAIN p \ {"is_online"} |-> p[k]]
NoOnlineSeq(rows) == [i \in 1..Len(rows) |-> NoOnline(rows[i])]

\* a query string without its id and name criteria
WithoutIdName(args) == [k \in DOMAIN args \ {"id", "name"} |-> args[k]]

\* C3: for an unauthenticated caller of annunci the profiles returned do not
\* depend on the id and name criteria: the request returns the profiles, in
\* the same order, that the same request without id and name returns over the
\* same stored profiles; hence any two unauthenticated requests with the same
\* gender, age_range, hair_color and eyes_color return the same list.
C3_ListingIgnoresIdName ==
    (ret.op = "annunci" /\ ~ret.authed) =>
      \A online \in OnlineChoices(profiles) :
        LET out == annunci(WithoutIdName(ret.args), FALSE, profiles, online, now.year)
        IN  /\ out.status = ret.status
            /\ NoOnlineSeq(out.listObjProfiles) = NoOnlineSeq(ret.listObjProfiles)

\* C3, the case: an unauthenticated request with id = 2 and name = "Li" was
\* answered with two profiles, the first with id 1 and a name without "li".
C3_Witness ==
    /\ ret.op = "annunci"
    /\ ~ret.authed
    /\ FormGet(ret.args, "id") = PyStr(<<"2">>)
    /\ FormGet(ret.args, "name") = PyStr(sLi)
    /\ Len(ret.listObjProfiles) = 2
    /\ ret.listObjProfiles[2].id = PyInt(1)
    /\ ret.listObjProfiles[2].first_name = PyStr(sAnna)
    /\ ret.listObjProfiles[2].last_name = PyStr(sBo)

\* the rule of C4 on a stored row
PublishedByRule(r) ==
    \/ "is_active" \notin DOMAIN r
    \/ r.is_active = None
    \/ r.is_active.t = "bool" /\ r.is_active.v = TRUE
    \/ r.is_active.t = "int" /\ r.is_active.v # 0
    \/ /\ r.is_active.t \notin {"None", "bool", "int"}
       /\ Lower(Strip(r.is_active.v)) \notin
            {<<"0">>, <<"f","a","l","s","e">>, <<"n","o">>, <<"n">>}

\* C4: get_published_profiles_with_status returns exactly the stored profiles
\* whose is_active is absent or None, or a truthy boolean/integer, or another
\* value whose trimmed lower-cased string form is none of "0", "false", "no",
\* "n": each of them once, and no other profile.
C4_PublishedSet ==
    ret.op = "get_published_profiles_with_status" =>
      /\ {NoOnline(ret.rows[i]) : i \in 1..Len(ret.rows)} = {r \in profiles : PublishedByRule(r)}
      /\ Len(ret.rows) = Cardinality({r \in profiles : PublishedByRule(r)})
      /\ \A i \in 1..Len(ret.rows) : ret.rows[i].is_online \in {PyBool(TRUE), PyBool(FALSE)}

\* C4, the case: of two stored rows, the one with is_active = " False " was
\* left out and the one with no is_active was returned.
C4_Witness ==
    /\ ret.op = "get_published_profiles_with_status"
    /\ Len(ret.rows) = 1
    /\ "is_active" \notin DOMAIN ret.rows[1]
    /\ \E r \in profiles : "is_active" \in DOMAIN r /\ r.is_active = PyStr(sFalsePadded)

RECURSIVE Intersection(_)
Intersection(sets) ==
    IF Cardinality(sets) = 1 THEN CHOOSE x \in sets : TRUE
    ELSE LET x == CHOOSE x \in sets : TRUE IN x \cap Intersection(sets \ {x})

\* C5: the profiles accepted with all criteria supplied are the intersection
\* of the profiles accepted with each criterion alone; filtering by some of the
\* criteria and then by the others gives the same as filtering by all at once;
\* a criterion not supplied removes no profile.
C5_FiltersIntersect ==
    ret.op = "_profile_matches_filters" =>
      /\ ret.accepted = Intersection({ret.alone[k] : k \in CriteriaKeys})
      /\ \A A \in SUBSET CriteriaKeys :
           Accepted(Accepted(profiles, Restrict(ret.criteria, A), now.year),
                    Restrict(ret.criteria, CriteriaKeys \ A), now.year) = ret.accepted
      /\ \A k \in CriteriaKeys : ret.criteria[k] = None => ret.alone[k] = profiles

\* C5, the case: all six criteria were supplied, one of two profiles passed
\* them all, and the other passed the hair colour but not the eyes colour.
C5_Witness ==
    /\ ret.op = "_profile_matches_filters"
    /\ \A k \in CriteriaKeys : ret.criteria[k] # None
    /\ Cardinality(profiles) = 2
    /\ Cardinality(ret.accepted) = 1
    /\ ret.alone["hair_color"] = profiles
    /\ ret.alone["eyes_color"] = ret.accepted

-----------------------------------------------------------------------------
(* Claims about the lifecycle of a stored profile (Spec) *)

-----------------------------------------------------------------------------
(* app.py: send_message *)

ErrSenderName == "Il nome e obbligatorio."
ErrSenderPhone == "Il cellulare e obbligatorio."
ErrSenderEmail == "Email non valida."
ErrSenderAgeMissing == "L'eta e obbligatoria."
ErrSenderAgeNumber == "L'eta deve essere un numero."
ErrSenderCity == "La citta e obbligatoria."
ErrPrivacy == "Devi accettare l'informativa privacy."

FlashSaveError == [msg |-> "Errore nel salvataggio del messaggio nel database: {e}", cat |-> "danger"]
FlashBothOk == [msg |-> "Messaggio inviato e salvato con successo!", cat |-> "success"]
FlashMailOnly == [msg |-> "Messaggio inviato via email, ma non salvato nel database.", cat |-> "warning"]
FlashSavedOnly == [msg |-> "Email non inviata (salvata nel database): {err}", cat |-> "warning"]
FlashBothFailed == [msg |-> "Errore nell'invio email e nel salvataggio: {err}", cat |-> "danger"]

sDash == <<"-">>

\* (form.get(k) or "").strip() or "-"
FormTextOrDash(form, k) == IF FormText(form, k) = <<>> THEN sDash ELSE FormText(form, k)

\* a contact validation that does not look for "@"
ContactErrorsNoAt(sender_name, sender_phone, sender_email, sender_age, sender_city, agree_privacy) ==
    (IF sender_name = <<>> THEN <<ErrSenderName>> ELSE <<>>)
      \o (IF sender_phone = <<>> THEN <<ErrSenderPhone>> ELSE <<>>)
      \o (IF sender_email = <<>> THEN <<ErrSenderEmail>> ELSE <<>>)
      \o (IF sender_age = <<>> THEN <<ErrSenderAgeMissing>>
          ELSE IF ~IsDigitStr(sender_age) THEN <<ErrSenderAgeNumber>> ELSE <<>>)
      \o (IF sender_city = <<>> THEN <<ErrSenderCity>> ELSE <<>>)
      \o (IF ~Truthy(agree_privacy) THEN <<ErrPrivacy>> ELSE <<>>)
\* the list errors of send_message
ContactErrors(sender_name, sender_phone, sender_email, sender_age, sender_city, agree_privacy) ==
    (IF sender_name = <<>> THEN <<ErrSenderName>> ELSE <<>>)
      \o (IF sender_phone = <<>> THEN <<ErrSenderPhone>> ELSE <<>>)
      \o (IF sender_email = <<>> \/ ~Contains(<<"@">>, sender_email)
          THEN <<ErrSenderEmail>> ELSE <<>>)
      \o (IF sender_age = <<>> THEN <<ErrSenderAgeMissing>>
          ELSE IF ~IsDigitStr(sender_age) THEN <<ErrSenderAgeNumber>> ELSE <<>>)
      \o (IF sender_city = <<>> THEN <<ErrSenderCity>> ELSE <<>>)
      \o (IF ~Truthy(agree_privacy) THEN <<ErrPrivacy>> ELSE <<>>)

\* the keyword arguments of insert_message
MessageArgs(form) ==
    LET profile_id == IF "profile_id" \in DOMAIN form THEN form.profile_id ELSE <<>>
    IN  [sender_name |-> PyStr(FormText(form, "sender_name")),
         sender_phone |-> PyStr(FormText(form, "sender_phone")),
         sender_email |-> PyStr(FormText(form, "sender_email")),
         sender_job |-> PyStr(FormTextOrDash(form, "sender_job")),
         sender_age |-> PyInt(DigitsToNat(FormText(form, "sender_age"))),
         sender_city |-> PyStr(FormText(form, "sender_city")),
         sender_message |-> PyStr(FormTextOrDash(form, "sender_message")),
         profile_id |-> IF IsDigitStr(profile_id) THEN PyInt(DigitsToNat(profile_id))
                        ELSE None]

\* the final flash without the insert when delivery failed
OutcomeFlashSkipping(ok, saved_ok) ==
    IF ok /\ saved_ok THEN FlashBothOk
    ELSE IF ok /\ ~saved_ok THEN FlashMailOnly
    ELSE FlashBothFailed
\* the final flash of send_message
OutcomeFlash(ok, saved_ok) ==
    IF ok /\ saved_ok THEN FlashBothOk
    ELSE IF ok /\ ~saved_ok THEN FlashMailOnly
    ELSE IF ~ok /\ saved_ok THEN FlashSavedOnly
    ELSE FlashBothFailed

\* POST /send_message; mail_ok is what send_email returns as ok, db_up whether
\* the database answers
send_message(form, profs, msgs, new_id, clock, mail_ok, db_up) ==
    LET errors == ContactErrors(FormText(form, "sender_name"), FormText(form, "sender_phone"),
                                FormText(form, "sender_email"), FormText(form, "sender_age"),
                                FormText(form, "sender_city"), FormGet(form, "agree_privacy"))
        args == MessageArgs(form)
        out == IF db_up THEN insert_message(profs, msgs, new_id, args, clock)
               ELSE [raised |-> TRUE, messages |-> msgs]
        saved_ok == ~out.raised
    IN  IF errors # <<>>
        THEN [flashes |-> [i \in 1..Len(errors) |-> [msg |-> errors[i], cat |-> "danger"]],
              errors |-> errors, calls |-> <<>>, reply_to |-> None, messages |-> msgs]
        ELSE [flashes |-> (IF saved_ok THEN <<>> ELSE <<FlashSaveError>>)
                            \o <<OutcomeFlash(mail_ok, saved_ok)>>,
              errors |-> <<>>, calls |-> <<"send_email", "insert_message">>,
              reply_to |-> args.sender_email, messages |-> out.messages]

-----------------------------------------------------------------------------
(* SpecContact: visitors post the contact form of a stored profile *)

MaxContactMsgs == 2

sAb == <<"a","b">>
sBlank == <<" ">>
s30 == <<"3","0">>
s0 == <<"0">>
s3x == <<"3","x">>
sOn == <<"o","n">>

\* a contact form that passes validation, by profile_id and sender_age
ValidContact(pid, age) ==
    Form([profile_id |-> pid, profile_name |-> PyStr(sAnna), sender_name |-> PyStr(sTo),
          sender_phone |-> PyStr(sTel), sender_email |-> PyStr(sAt),
          sender_job |-> None, sender_age |-> PyStr(age), sender_city |-> PyStr(sTo),
          sender_message |-> PyStr(sHi), agree_privacy |-> PyStr(sOn)])

\* profile_id as the contact form carries it: absent, the stored profile, a
\* profile that is not stored, not a number
ContactIdOpts == Opt({<<"1">>, <<"2">>, <<"x">>})

ValidContacts == {ValidContact(pid, age) : pid \in ContactIdOpts, age \in {s30, s0}}

\* forms with one field absent, blank or malformed, and one with several
InvalidContacts ==
    {Form([profile_id |-> PyStr(<<"1">>), profile_name |-> PyStr(sAnna),
           sender_name |-> name, sender_phone |-> phone, sender_email |-> email,
           sender_job |-> None, sender_age |-> age, sender_city |-> city,
           sender_message |-> PyStr(sHi), agree_privacy |-> agree]) :
       name \in Opt({sTo, sBlank}), phone \in Opt({sTel}), email \in Opt({sAt, sAb}),
       age \in Opt({s30, s3x}), city \in Opt({sTo}), agree \in Opt({sOn})}
      \ ValidContacts

\* ... of which those with at most one fault, and the form with every fault
ContactForms ==
    ValidContacts
      \cup {f \in InvalidContacts :
              \/ Cardinality({k \in DOMAIN ValidContact(PyStr(<<"1">>), s30) :
                                k \notin DOMAIN f \/ f[k] # ValidContact(PyStr(<<"1">>), s30)[k]}) = 1
              \/ DOMAIN f = {"profile_id", "profile_name", "sender_message"}}

ContactInit ==
    /\ dao = "profiles_dao"
    /\ profiles = {SeedRow(1, None, PyStr(strftime([year |-> 2024, sec |-> 0])))}
    /\ messages = {}
    /\ next_profile_id = 2
    /\ next_message_id = 1
    /\ session = NoSession
    /\ login_by = NoLogin
    /\ now = [year |-> 2025, sec |-> 0]
    /\ ret = Idle
    /\ procs = NoProcs

\* POST /send_message while the ids the table has handed out are at most last_id
SendMessageUpTo(form, mail_ok, db_up, last_id) ==
    /\ ret.op = "idle"
    /\ next_message_id <= last_id
    /\ \E out \in {send_message(form, profiles, messages, next_message_id, now, mail_ok, db_up)} :
         /\ messages' = out.messages
         \* the sequence of messages.id advances when the INSERT ran, stored or not
         /\ next_message_id' = IF out.calls # <<>> /\ db_up THEN next_message_id + 1
                               ELSE next_message_id
         /\ ret' = [op |-> "send_message", form |-> form, mail_ok |-> mail_ok,
                    db_up |-> db_up, flashes |-> out.flashes, errors |-> out.errors,
                    calls |-> out.calls, reply_to |-> out.reply_to]
    /\ UNCHANGED <<profiles, next_profile_id, dao, session, login_by, now, procs>>

SendMessage(form, mail_ok, db_up) == SendMessageUpTo(form, mail_ok, db_up, MaxContactMsgs)

ContactNext ==
    \/ Respond
    \/ \E form \in ContactForms, mail_ok \in BOOLEAN, db_up \in BOOLEAN :
         SendMessage(form, mail_ok, db_up)

SpecContact == ContactInit /\ [][ContactNext]_vars

-----------------------------------------------------------------------------
(* Claims about the contact form (SpecContact) *)

\* how often call c occurs in the sequence calls
Count(calls, c) == Cardinality({i \in 1..Len(calls) : calls[i] = c})

\* the submitted field k without surrounding blanks, "" when absent
Field(form, k) == IF k \in DOMAIN form THEN Strip(form[k]) ELSE <<>>

\* one of the rules of the contact form is broken by the submission
ContactRuleBroken(form) ==
    \/ \E k \in {"sender_name", "sender_phone", "sender_city", "sender_age"} :
         Field(form, k) = <<>>
    \/ ~IsDigitStr(Field(form, "sender_age"))
    \/ ~\E i \in 1..Len(Field(form, "sender_email")) : Field(form, "sender_email")[i] = "@"
    \/ "agree_privacy" \notin DOMAIN form
    \/ form.agree_privacy = <<>>

\* C12: a contact submission that breaks a rule of the form (a required field
\* empty, an age that is not a number, an email without "@", no consent) calls
\* neither send_email nor insert_message: no delivery is attempted and the
\* stored messages are as before.
C12_InvalidContactStopsEarly ==
    [][(ret'.op = "send_message" /\ ContactRuleBroken(ret'.form)) =>
         /\ Count(ret'.calls, "send_email") = 0
         /\ Count(ret'.calls, "insert_message") = 0
         /\ ret'.reply_to = None
         /\ ret'.errors # <<>>
         /\ messages' = messages]_vars

C12_Witness ==
    /\ ret.op = "send_message"
    /\ Field(ret.form, "sender_email") = sAb
    /\ ret.errors = <<ErrSenderEmail>>
    /\ ret.mail_ok /\ ret.db_up
    /\ ret.calls = <<>>

\* the insert of the submission was stored
Saved(before, after) == \E m \in after : m \notin before

\* C13: a valid contact submission makes exactly one delivery attempt and
\* exactly one insert_message call, the insert being made whether or not the
\* delivery succeeded, and its last message to the visitor tells which of the
\* four combinations of delivery and persistence happened.
C13_OneAttemptEachFourOutcomes ==
    [][(ret'.op = "send_message" /\ ~ContactRuleBroken(ret'.form)) =>
         LET last == ret'.flashes[Len(ret'.flashes)]
             saved == Saved(messages, messages')
         IN  /\ Count(ret'.calls, "send_email") = 1
             /\ Count(ret'.calls, "insert_message") = 1
             /\ (ret'.db_up /\ Field(ret'.form, "profile_id") # <<"2">>) => saved
             /\ ~ret'.db_up => ~saved
             /\ ~saved => messages' = messages
             /\ (ret'.mail_ok /\ saved) <=> last = FlashBothOk
             /\ (ret'.mail_ok /\ ~saved) <=> last = FlashMailOnly
             /\ (~ret'.mail_ok /\ saved) <=> last = FlashSavedOnly
             /\ (~ret'.mail_ok /\ ~saved) <=> last = FlashBothFailed
             /\ Cardinality({FlashBothOk, FlashMailOnly, FlashSavedOnly, FlashBothFailed}) = 4]_vars

\* the delivery failed and the message is stored all the same
C13_Witness ==
    /\ ret.op = "send_message"
    /\ ~ret.mail_ok
    /\ ret.calls = <<"send_email", "insert_message">>
    /\ ret.flashes = <<FlashSavedOnly>>
    /\ \E m \in messages : m.id = PyInt(1) /\ m.profile_id = PyInt(1)

C13_BothOk == ret.op = "send_message" /\ ret.flashes = <<FlashBothOk>> /\ messages # {}
C13_MailOnly == ret.op = "send_message" /\ ret.flashes = <<FlashSaveError, FlashMailOnly>> /\ ret.mail_ok
C13_BothFailed == ret.op = "send_message" /\ ret.flashes = <<FlashSaveError, FlashBothFailed>> /\ ~ret.mail_ok

\* C14: every stored message has a sender_name, a sender_phone and a
\* sender_city that are not empty, a sender_email with "@" in it, and a
\* sender_age that is an integer above 0.
C14_StoredMessagesComplete ==
    \A m \in messages :
      /\ m.sender_name.t = "str" /\ m.sender_name.v # <<>>
      /\ m.sender_phone.t = "str" /\ m.sender_phone.v # <<>>
      /\ m.sender_city.t = "str" /\ m.sender_city.v # <<>>
      /\ m.sender_email.t = "str" /\ Contains(<<"@">>, m.sender_email.v)
      /\ m.sender_age.t = "int" /\ m.sender_age.v > 0

-----------------------------------------------------------------------------
(* SpecGender: the listing asked for with a gender criterion *)

MaxGenderRows == 2

\* the gender criterion as sent: each synonym, one padded and in capitals, and
\* a value the synonym table does not have
GenderArgs ==
    {Form([gender |-> PyStr(g)]) :
       g \in {sUomo, <<"m">>, sMale, sDonna, <<"f">>, sFemale, <<" ","U","O","M","O"," ">>,
              <<"x">>}}

GenderInit ==
    /\ dao = "profiles_dao"
    /\ profiles \in PersonTables({1, 2, 3}, MaxGenderRows)
    /\ messages = {}
    /\ next_profile_id = MaxGenderRows + 1
    /\ next_message_id = 1
    /\ session = [c \in Clients |->
                    [is_authenticated |-> (c = "c1"), form_errors |-> FALSE]]
    /\ login_by = [c \in Clients |-> IF c = "c1" THEN PyStr(ADMIN_PASSCODE) ELSE None]
    /\ now = [year |-> 2025, sec |-> 0]
    /\ ret = Idle
    /\ procs = NoProcs

GenderNext == Respond \/ \E c \in Clients, args \in GenderArgs : Annunci(c, args)

SpecGender == GenderInit /\ [][GenderNext]_vars

\* the canonical value of a gender as the synonym table of the specification
\* gives it, "" for a value the table does not have
Canonical(s) ==
    LET v == Lower(Strip(s))
    IN  IF v \in {sUomo, <<"m">>, sMale} THEN sMale
        ELSE IF v \in {sDonna, <<"f">>, sFemale} THEN sFemale
        ELSE <<>>

\* C15: when the listing is asked for with a gender criterion, it returns the
\* published profiles whose stored gender and the criterion map to the same
\* canonical value under the synonym table, and no others: synonyms return the
\* same profiles, a profile whose gender the table does not have is never
\* returned, and a criterion the table does not have returns no profile.
C15_GenderMatchesCanonical ==
    (ret.op = "annunci" /\ "gender" \in DOMAIN ret.args) =>
      {ret.listObjProfiles[i].id : i \in 1..Len(ret.listObjProfiles)}
        = {r.id : r \in {q \in profiles :
                           /\ is_published(ActiveOf(q))
                           /\ q.gender # None
                           /\ Canonical(ret.args.gender) # <<>>
                           /\ Canonical(q.gender.v) = Canonical(ret.args.gender)}}

\* C15 for the criteria the synonym table has
C15_MappedCriteria ==
    (ret.op = "annunci" /\ "gender" \in DOMAIN ret.args /\ Canonical(ret.args.gender) # <<>>) =>
      C15_GenderMatchesCanonical

-----------------------------------------------------------------------------
(* Claims about the delete marker and the published flag (Spec, SpecRepublish) *)

\* C16: a request to create_or_update_profile that carries action = "delete"
\* neither inserts a profile nor updates one, whatever else it carries and
\* whether or not it carries a profile_id.
C16_DeleteMarkerNeverWrites ==
    (/\ ret.op = "create_or_update_profile"
     /\ FormGet(ret.form, "action") = PyStr(sDelete)) =>
      /\ "insert_profile" \notin CallSet(ret.calls)
      /\ "update_profile" \notin CallSet(ret.calls)

\* C16 for the requests that carry a profile_id
C16_WithProfileId ==
    (ret.op = "create_or_update_profile" /\ Truthy(FormGet(ret.form, "profile_id"))) =>
      C16_DeleteMarkerNeverWrites

\* SpecRepublish: the lifecycle of Spec over a table that holds one profile,
\* unpublished by a write that did not come through this application
MaxRepublishIds == 2

\* is_active of the stored profile: 0, false, '0'
SeedActiveValues == {PyInt(0), PyBool(FALSE), PyStr(<<"0">>)}

RepublishInit ==
    /\ dao = "profiles_dao"
    /\ \E a \in SeedActiveValues :
         profiles = {[SeedRow(1, PyInt(170), PyStr(strftime([year |-> 2024, sec |-> 0])))
                        EXCEPT !.is_active = a]}
    /\ messages = {}
    /\ next_profile_id = 2
    /\ next_message_id = 1
    /\ session = [c \in Clients |->
                    [is_authenticated |-> (c = "c1"), form_errors |-> FALSE]]
    /\ login_by = [c \in Clients |-> IF c = "c1" THEN PyStr(ADMIN_PASSCODE) ELSE None]
    /\ now = [year |-> 2025, sec |-> 0]
    /\ ret = Idle
    /\ procs = NoProcs

RepublishNext ==
    \/ Respond
    \/ \E form \in LifeForms : CreateOrUpdateProfileUpTo("c1", form, MaxRepublishIds)

SpecRepublish == RepublishInit /\ [][RepublishNext]_vars

\* the profiles the listing publishes, by id
PublishedIds(profs) == {r.id : r \in {q \in profs : is_published(ActiveOf(q))}}

\* C20: every successful update through create_or_update_profile writes
\* is_active = 1 whatever the stored value was, so the updated profile is in
\* the published set afterwards, and no create, update or delete leaves a
\* stored profile unpublished that was not stored so before.
C20_UpdatePublishes ==
    [][/\ (ret'.op = "create_or_update_profile" /\ "update_profile" \in CallSet(ret'.calls)) =>
            \A old \in profiles :
              old.id = _to_int(FormGet(ret'.form, "profile_id")) =>
                \E new \in profiles' : /\ new.id = old.id
                                       /\ new.is_active = PyInt(1)
                                       /\ new.id \in PublishedIds(profiles')
       /\ \A r \in profiles' :
            (r.is_active # PyInt(1) \/ r.id \notin PublishedIds(profiles')) => r \in profiles]_vars

\* C20, the case: the profile stored with is_active = 0 has been updated and
\* is published
C20_Witness ==
    /\ ret.op = "create_or_update_profile"
    /\ "update_profile" \in CallSet(ret.calls)
    /\ \E r \in profiles : /\ r.id = PyInt(1) /\ r.last_name = PyStr(sLi)
                           /\ r.is_active = PyInt(1)
    /\ PublishedIds(profiles) = {PyInt(1)}
    /\ next_profile_id = 2

-----------------------------------------------------------------------------
(* SpecTxn: requests of two clients interleaved statement by statement *)

MaxTxnMsgs == 2

\* the height_cm create_or_update_profile holds once it has looked up the
\* stored one, profs being the table as the lookup reads it
UpdateHeight(form, profs) ==
    LET height_m == _to_float(FormGet(form, "height_m"))
        height_cm0 == IF height_m # None THEN PyInt(RoundCm(height_m.milli))
                      ELSE _to_int(FormGet(form, "height_cm"))
        pid == ParseInt(FormGet(form, "profile_id").v)
    IN  IF height_cm0 = None
        THEN KeepOldHeight(get_profile_by_id(profs, pid.v), height_cm0)
        ELSE height_cm0

\* the ids of the messages UPDATE messages SET profile_id = NULL changes
DetachedIds(msgs, profile_id) == {m.id : m \in {x \in msgs : x.profile_id = PyInt(profile_id)}}

\* the messages as the transaction of delete_profile sees them after its UPDATE
Detached(msgs, ids) ==
    {IF m.id \in ids THEN [m EXCEPT !.profile_id = None] ELSE m : m \in msgs}
\* the stored messages had the connection committed each statement
DetachCommitted(msgs, ids) == Detached(msgs, ids)
\* the stored messages when the connection is closed before conn.commit(): the
\* UPDATE is rolled back
RolledBack(msgs, ids) == msgs

\* updates of profile 1 without a height and with one, and its deletion
UpdateNoHeight == Form([profile_id |-> PyStr(<<"1">>), first_name |-> PyStr(sAnnaPadded),
                        last_name |-> PyStr(sLi), gender |-> PyStr(<<" ","F">>),
                        bio |-> PyStr(sHi)])
UpdateHeight100 == Form([profile_id |-> PyStr(<<"1">>), first_name |-> PyStr(sBo),
                         last_name |-> PyStr(sBo), gender |-> PyStr(<<"M">>),
                         bio |-> PyStr(sHi), height_m |-> PyStr(<<"1",".","0","0">>)])
DeleteFirst == Form([profile_id |-> PyStr(<<"1">>), action |-> PyStr(sDelete)])

TxnUpdates == {UpdateNoHeight, UpdateHeight100}

TxnInit ==
    /\ dao = "profiles_dao"
    /\ profiles = {SeedRow(1, PyInt(170), PyStr(strftime([year |-> 2024, sec |-> 0])))}
    /\ messages = {SeedMessage(1, PyInt(1))}
    /\ next_profile_id = 2
    /\ next_message_id = 2
    /\ session = [c \in Clients |-> [is_authenticated |-> TRUE, form_errors |-> FALSE]]
    /\ login_by = [c \in Clients |-> PyStr(ADMIN_PASSCODE)]
    /\ now = [year |-> 2025, sec |-> 0]
    /\ ret = Idle
    /\ procs = NoProcs

\* create_or_update_profile of an update, up to the call of update_profile
UpdateRead(c, form) ==
    /\ ret.op = "idle"
    /\ procs[c].pc = "idle"
    /\ \E out \in {create_or_update_profile(form, session[c].is_authenticated, profiles,
                                            messages, next_profile_id, now)} :
         /\ "update_profile" \in {out.calls[i] : i \in 1..Len(out.calls)}
         /\ procs' = [procs EXCEPT ![c] =
                        [pc |-> "write", form |-> form,
                         profile_id |-> ParseInt(FormGet(form, "profile_id").v).v,
                         args |-> ProfileArgs(form, UpdateHeight(form, profiles))]]
         /\ ret' = [op |-> "update_read", client |-> c, form |-> form]
    /\ UNCHANGED <<profiles, messages, next_profile_id, next_message_id, dao,
                   session, login_by, now>>

\* ... and its call of update_profile: one UPDATE, committed
UpdateWrite(c) ==
    /\ ret.op = "idle"
    /\ procs[c].pc = "write"
    /\ profiles' = update_profile(profiles, procs[c].profile_id, procs[c].args)
    /\ procs' = [procs EXCEPT ![c] = [pc |-> "idle"]]
    /\ ret' = [op |-> "update_profile", client |-> c, form |-> procs[c].form,
               profile_id |-> procs[c].profile_id, args |-> procs[c].args]
    /\ UNCHANGED <<messages, next_profile_id, next_message_id, dao, session,
                   login_by, now>>

\* delete_profile, its first statement: the UPDATE that detaches the messages
\* runs in the transaction of the connection and is not committed
DeleteDetach(c, form) ==
    /\ ret.op = "idle"
    /\ procs[c].pc = "idle"
    /\ \E out \in {create_or_update_profile(form, session[c].is_authenticated, profiles,
                                            messages, next_profile_id, now)} :
         /\ out.calls = <<"delete_profile">>
         \* the UPDATE waits for the rows another open transaction has updated
         /\ \A d \in Clients \ {c} :
              procs[d].pc = "detached" =>
                procs[d].ids \cap DetachedIds(messages,
                                              ParseInt(FormGet(form, "profile_id").v).v) = {}
         /\ procs' = [procs EXCEPT ![c] =
                        [pc |-> "detached",
                         profile_id |-> ParseInt(FormGet(form, "profile_id").v).v,
                         ids |-> DetachedIds(messages,
                                             ParseInt(FormGet(form, "profile_id").v).v)]]
         /\ ret' = [op |-> "detach", client |-> c, form |-> form]
    /\ UNCHANGED <<profiles, messages, next_profile_id, next_message_id, dao,
                   session, login_by, now>>

\* ... its second statement and the commit: the DELETE is rejected when a
\* message the UPDATE did not see names the profile, and nothing is committed
DeleteRemove(c) ==
    /\ ret.op = "idle"
    /\ procs[c].pc = "detached"
    /\ LET seen == Detached(messages, procs[c].ids)
           raised == FkBlocksDelete(seen, procs[c].profile_id)
       IN  /\ messages' = IF raised THEN RolledBack(messages, procs[c].ids) ELSE seen
           /\ profiles' = IF raised THEN profiles
                          ELSE DeleteProfileRow(profiles, procs[c].profile_id)
           /\ ret' = [op |-> "delete", client |-> c, profile_id |-> procs[c].profile_id,
                      ids |-> procs[c].ids, raised |-> raised]
    /\ procs' = [procs EXCEPT ![c] = [pc |-> "idle"]]
    /\ UNCHANGED <<next_profile_id, next_message_id, dao, session, login_by, now>>

\* ... or the persistence layer fails after the UPDATE and before the DELETE:
\* the exception leaves the with block, which closes the connection
DeleteFail(c) ==
    /\ ret.op = "idle"
    /\ procs[c].pc = "detached"
    /\ messages' = RolledBack(messages, procs[c].ids)
    /\ procs' = [procs EXCEPT ![c] = [pc |-> "idle"]]
    /\ ret' = [op |-> "delete_failed", client |-> c, profile_id |-> procs[c].profile_id,
               ids |-> procs[c].ids, raised |-> TRUE]
    /\ UNCHANGED <<profiles, next_profile_id, next_message_id, dao, session,
                   login_by, now>>

TxnNext ==
    \/ Respond
    \/ \E c \in Clients, form \in TxnUpdates : UpdateRead(c, form)
    \/ \E c \in Clients : UpdateWrite(c)
    \/ \E c \in Clients : DeleteDetach(c, DeleteFirst)
    \/ \E c \in Clients : DeleteRemove(c)
    \/ \E c \in Clients : DeleteFail(c)
    \/ SendMessageUpTo(ValidContact(PyStr(<<"1">>), s30), TRUE, TRUE, MaxTxnMsgs)

SpecTxn == TxnInit /\ [][TxnNext]_vars

-----------------------------------------------------------------------------
(* Claims about interleaved requests (SpecTxn) *)

NoDanglingReference(profs, msgs) ==
    \A m \in msgs : m.profile_id # None => \E r \in profs : r.id = m.profile_id

\* C18: however delete_profile(P) and the contact submissions that insert a
\* message referencing P interleave, no committed state holds a message whose
\* profile_id names a profile that is not stored, and delete_profile never
\* attempts to remove a profile row that a stored message, other than those it
\* has detached, still references.
C18_DeleteNeverOnReferenced ==
    [][/\ NoDanglingReference(profiles', messages')
       /\ ret'.op = "delete" =>
            \A m \in messages :
              m.profile_id = PyInt(ret'.profile_id) => m.id \in ret'.ids]_vars

\* C18, its first half
C18_NoDanglingReference == NoDanglingReference(profiles, messages)

\* the request supplies neither height
OmitsHeight(form) ==
    Strip(Submitted(form, "height_m")) = <<>> /\ Strip(Submitted(form, "height_cm")) = <<>>

\* row holds, in every column an update writes but height_cm, what form submitted
WrittenBy(row, form) ==
    /\ \A k \in TextColumns \cup IntColumns \cup {"smoker"} : row[k] = SubmittedValueRead(form, k)
    /\ row.is_active = PyInt(1)

\* C19: however two updates of one profile id, and an update and a delete of
\* it, interleave, the row an update has written holds the complete field set
\* of that update and nothing of the other; when the update omitted the height,
\* the row's height_cm is the value stored immediately before the write; and an
\* update that commits after the delete does not bring the profile back.
C19_LastWriteWins ==
    [][ret'.op = "update_profile" =>
         /\ (\A r \in profiles : r.id # PyInt(ret'.profile_id)) => profiles' = profiles
         /\ \A old \in profiles : old.id = PyInt(ret'.profile_id) =>
              \E new \in profiles' :
                /\ profiles' = (profiles \ {old}) \cup {new}
                /\ new.id = old.id /\ new.created_at = old.created_at
                /\ WrittenBy(new, ret'.form)
                /\ OmitsHeight(ret'.form) => new.height_cm = old.height_cm]_vars

\* C19 without its clause on the height
C19_FieldsOfLastWrite ==
    [][ret'.op = "update_profile" =>
         /\ (\A r \in profiles : r.id # PyInt(ret'.profile_id)) => profiles' = profiles
         /\ \A old \in profiles : old.id = PyInt(ret'.profile_id) =>
              \E new \in profiles' :
                /\ profiles' = (profiles \ {old}) \cup {new}
                /\ new.id = old.id /\ new.created_at = old.created_at
                /\ WrittenBy(new, ret'.form)]_vars

====
